---- MODULE Spec2Model ----
(***************************************************************************)
(* Model of the contracts of irfanm0/erc4337:                              *)
(*   - EIP7702Delegate (src/contracts/EIP7702Delegate.sol): the code that  *)
(*     delegating EOAs run in their own storage (EIP-7702), with batching  *)
(*     and session keys;                                                   *)
(*   - Account (src/EIP7702_README.md, lines 215-347): the ERC-4337        *)
(*     account with a merchant and a platform signer;                      *)
(*   - Paymaster (src/contracts/Paymaster.sol): the sponsor of gas, with   *)
(*     its whitelist, its deposit at the entry point and its usage         *)
(*     counters.  Its owner is the deployer; Ownable's transfer of         *)
(*     ownership is left out.                                              *)
(* A transaction is executed whole by one action; a call that reverts      *)
(* returns the state it was given (the EVM discards the frame's changes).  *)
(***************************************************************************)
EXTENDS Integers, Sequences, FiniteSets, TLC

VARIABLES
    nonces,        \* nonces[self][a]: mapping `nonces` in the storage of account self
    sessionKeys,   \* sessionKeys[self][a][k]: mapping `sessionKeys` in the storage of self
    balances,      \* ether balance of every address
    events,        \* events[self]: the BatchExecuted / SessionKeyAdded logs emitted by self
    now,           \* block.timestamp
    lastTx,        \* receipt of the transaction executed in the current block
    platformSigner,   \* Account.platformSigner
    merchantAddress,  \* Account.merchantAddress
    userEmail,        \* Account.userEmail
    ether,            \* ether balance of the Account contract and of those it deals with
    lastOp,           \* outcome of the last call made to the Account contract
    isShutdown,         \* Paymaster.isShutdown
    accountGasUsage,    \* Paymaster.accountGasUsage
    sponsoredAccounts,  \* Paymaster.sponsoredAccounts
    wallet,             \* ether of the Paymaster contract and of those who call it
    entryPointDeposit,  \* entryPoint.balanceOf(paymaster)
    lastP,              \* outcome of the last call made to the Paymaster contract
    accountsByEmailHash,        \* AccountFactory.accountsByEmailHash
    accountsByMerchantAddress,  \* AccountFactory.accountsByMerchantAddress
    factoryPlatformSigner,      \* AccountFactory.platformSigner
    deployed,           \* the Accounts the factory has constructed, in order
    accountCreated,     \* the AccountCreated events of the factory
    lastF               \* outcome of the last call made to the AccountFactory

dvars == <<nonces, sessionKeys, balances, events, now, lastTx>>

avars == <<platformSigner, merchantAddress, userEmail, ether, lastOp>>

pvars == <<isShutdown, accountGasUsage, sponsoredAccounts, wallet, entryPointDeposit,
           lastP>>

fvars == <<accountsByEmailHash, accountsByMerchantAddress, factoryPlatformSigner,
           deployed, accountCreated, lastF>>

vars == <<nonces, sessionKeys, balances, events, now, lastTx,
          platformSigner, merchantAddress, userEmail, ether, lastOp,
          isShutdown, accountGasUsage, sponsoredAccounts, wallet, entryPointDeposit,
          lastP,
          accountsByEmailHash, accountsByMerchantAddress, factoryPlatformSigner,
          deployed, accountCreated, lastF>>

----------------------------------------------------------------------------
(* Bounds *)

\* uint256 is modelled with a small largest value; arithmetic beyond it panics.
UintMax == 2
\* block.timestamp ranges over 0..MaxTime
MaxTime == 2
\* longest batch submitted
MaxBatch == 2
\* ether each delegating account, and the Account, starts with
InitBal == 2
\* missingAccountFunds ranges over 0..MaxFunds
MaxFunds == 2
\* maxCost and actualGasCost range over 0..MaxCost
MaxCost == 2
\* ether the owner of the paymaster starts with
OwnerFunds == 2

----------------------------------------------------------------------------
(* Addresses *)

\* EOAs that have delegated their code to EIP7702Delegate
Accounts == {"A", "B"}
\* an EOA without code: the intended session delegate
Delegate == "D"
\* an external contract: forwards the call it is handed, or reverts on request
Relay == "S"
\* every address that can sign a transaction (tx.origin)
Origins == {"A", "B", "D"}
Addrs == {"A", "B", "D", "S"}

----------------------------------------------------------------------------
(* Calldata *)

Empty == [fn |-> "receive"]
FailData == [fn |-> "fail"]
AddKey(k, u, m) == [fn |-> "addSessionKey", sessionKey |-> k, validUntil |-> u, maxValue |-> m]
Revoke(k) == [fn |-> "revokeSessionKey", sessionKey |-> k]
Batch(cs) == [fn |-> "executeBatch", calls |-> cs]
WithKey(t, v, d) == [fn |-> "executeWithSessionKey", target |-> t, value |-> v, data |-> d]
IsValidQ(k, a) == [fn |-> "isValidSessionKey", sessionKey |-> k, account |-> a]
GetNonce(a) == [fn |-> "getNonce", account |-> a]
RelayData(c) == [fn |-> "relay", call |-> c]
Call(t, v, d) == [target |-> t, value |-> v, data |-> d]

----------------------------------------------------------------------------
(* EVM frame results *)

ZeroKey == [validUntil |-> 0, maxValue |-> 0, isActive |-> FALSE]

\* a frame's result: st is the state it leaves, calls the external calls it made
Ok(st) == [ok |-> TRUE, reason |-> "", ret |-> "", st |-> st, calls |-> <<>>]
Return(st, v) == [ok |-> TRUE, reason |-> "", ret |-> v, st |-> st, calls |-> <<>>]
\* a revert discards every change of the frame: st is the state at its entry
Revert(st, why) == [ok |-> FALSE, reason |-> why, ret |-> "", st |-> st, calls |-> <<>>]

\* the calls made while a call ran lie one level below it
Nested(calls) == [i \in 1..Len(calls) |-> [calls[i] EXCEPT !.depth = @ + 1]]

Pay(bal, from, to, v) ==
    IF from = to THEN bal
    ELSE [bal EXCEPT ![from] = @ - v, ![to] = @ + v]

----------------------------------------------------------------------------
(* EIP7702Delegate *)

RECURSIVE Message(_, _, _, _, _, _, _)
RECURSIVE ExternalCall(_, _, _, _, _, _, _)
RECURSIVE RunCalls(_, _, _, _, _, _)
RECURSIVE DelegateCode(_, _, _, _, _, _, _)
RECURSIVE RelayCode(_, _, _, _, _, _, _)

\* a faulty variant of OnlyDelegatingAccount: only other delegating accounts are
\* turned away
OnlyAmongAccounts(sender, self) == sender = self \/ sender \notin Accounts

\* a faulty variant of OnlyDelegatingAccount: every caller passes
AnySender(sender, self) == TRUE

\* modifier onlyDelegatingAccount: msg.sender == address(this)
OnlyDelegatingAccount(sender, self) == sender = self

\* a faulty variant of KeyValid: the key is dead at the second it expires
KeyValidStrict(key, t) == key.isActive /\ t < key.validUntil

\* key.isActive && block.timestamp <= key.validUntil
KeyValid(key, t) == key.isActive /\ t <= key.validUntil

\* isValidSessionKey(sessionKey, account), read in the storage of self
IsValidSessionKey(st, self, t, sessionKey, account) ==
    KeyValid(st.sessionKeys[self][account][sessionKey], t)

\* modifier onlyAccountOrSession
OnlyAccountOrSession(st, self, t, origin, sender) ==
    origin = sender \/ IsValidSessionKey(st, self, t, sender, origin)

\* a faulty variant of WithinLimit: the cap itself is refused
WithinLimitStrict(value, key) == value < key.maxValue

\* require(value <= sessionKey.maxValue)
WithinLimit(value, key) == value <= key.maxValue

\* a faulty variant of Incremented: the counter moves by two
IncrementedTwice(n) == n + 2

\* nonces[msg.sender]++ : the stored value after the increment
Incremented(n) == n + 1

BatchExecuted(self, account, nonce) ==
    [emitter |-> self, name |-> "BatchExecuted", account |-> account, nonce |-> nonce]

SessionKeyAdded(self, account, k, u) ==
    [emitter |-> self, name |-> "SessionKeyAdded", account |-> account,
     sessionKey |-> k, validUntil |-> u]

\* a faulty variant of RunCalls: the list is run from its end
RECURSIVE RunCallsBackwards(_, _, _, _, _, _)
RunCallsBackwards(st, t, origin, self, calls, i) ==
    IF i > Len(calls) THEN Ok(st)
    ELSE LET c == calls[Len(calls) + 1 - i]
             r == ExternalCall(st, t, origin, self, c.target, c.value, c.data)
         IN  IF ~r.ok THEN r
             ELSE LET rest == RunCallsBackwards(r.st, t, origin, self, calls, i + 1)
                  IN  [rest EXCEPT !.calls = r.calls \o @]

\* a faulty variant of RunCalls: the loop ends after one call
RunFirstCallOnly(st, t, origin, self, calls, i) ==
    IF i > Len(calls) THEN Ok(st)
    ELSE ExternalCall(st, t, origin, self,
                      calls[i].target, calls[i].value, calls[i].data)

\* the loop of executeBatch from call i on: stops at the first failing call
RunCalls(st, t, origin, self, calls, i) ==
    IF i > Len(calls) THEN Ok(st)
    ELSE LET r == ExternalCall(st, t, origin, self,
                               calls[i].target, calls[i].value, calls[i].data)
         IN  IF ~r.ok THEN r
             ELSE LET rest == RunCalls(r.st, t, origin, self, calls, i + 1)
                  IN  [rest EXCEPT !.calls = r.calls \o @]

\* a faulty variant of ExecuteBatch: the counter wraps around to 0
ExecuteBatchWrapping(st, t, origin, sender, self, d) ==
    IF ~OnlyDelegatingAccount(sender, self) THEN Revert(st, "Not delegating account")
    ELSE LET currentNonce == st.nonces[self][sender]
             st1 == [st EXCEPT !.nonces[self][sender] = Incremented(@) % (UintMax + 1)]
             r == RunCalls(st1, t, origin, self, d.calls, 1)
         IN  IF ~r.ok
             THEN [Revert(st, r.reason) EXCEPT !.calls = r.calls]
             ELSE [r EXCEPT !.st.logs =
                       Append(@, BatchExecuted(self, sender, currentNonce))]

\* a faulty variant of ExecuteBatch: a failure is reported in the batch's own words
ExecuteBatchWrapped(st, t, origin, sender, self, d) ==
    IF ~OnlyDelegatingAccount(sender, self) THEN Revert(st, "Not delegating account")
    ELSE LET currentNonce == st.nonces[self][sender] IN
         IF currentNonce = UintMax THEN Revert(st, "Panic(0x11)")
         ELSE LET st1 == [st EXCEPT !.nonces[self][sender] = Incremented(@)]
                  r == RunCalls(st1, t, origin, self, d.calls, 1)
              IN  IF ~r.ok
                  THEN [Revert(st, "Batch failed") EXCEPT !.calls = r.calls]
                  ELSE [r EXCEPT !.st.logs =
                            Append(@, BatchExecuted(self, sender, currentNonce))]

ExecuteBatch(st, t, origin, sender, self, d) ==
    IF ~OnlyDelegatingAccount(sender, self) THEN Revert(st, "Not delegating account")
    ELSE LET currentNonce == st.nonces[self][sender] IN
         IF currentNonce = UintMax THEN Revert(st, "Panic(0x11)")
         ELSE LET st1 == [st EXCEPT !.nonces[self][sender] = Incremented(@)]
                  r == RunCalls(st1, t, origin, self, d.calls, 1)
              IN  IF ~r.ok
                  THEN [Revert(st, r.reason) EXCEPT !.calls = r.calls]
                  ELSE [r EXCEPT !.st.logs =
                            Append(@, BatchExecuted(self, sender, currentNonce))]

\* a faulty variant of AddSessionKey: the active flag of an entry that exists is kept
AddSessionKeyKeepFlag(st, sender, self, d) ==
    IF ~OnlyDelegatingAccount(sender, self) THEN Revert(st, "Not delegating account")
    ELSE LET old == st.sessionKeys[self][sender][d.sessionKey]
         IN  Ok([st EXCEPT
                    !.sessionKeys[self][sender][d.sessionKey] =
                        [validUntil |-> d.validUntil, maxValue |-> d.maxValue,
                         isActive |-> IF old = ZeroKey THEN TRUE ELSE old.isActive],
                    !.logs = Append(@, SessionKeyAdded(self, sender, d.sessionKey,
                                                       d.validUntil))])

AddSessionKey(st, sender, self, d) ==
    IF ~OnlyDelegatingAccount(sender, self) THEN Revert(st, "Not delegating account")
    ELSE Ok([st EXCEPT
                !.sessionKeys[self][sender][d.sessionKey] =
                    [validUntil |-> d.validUntil, maxValue |-> d.maxValue,
                     isActive |-> TRUE],
                !.logs = Append(@, SessionKeyAdded(self, sender, d.sessionKey,
                                                   d.validUntil))])

\* a faulty variant of RevokeSessionKey: the entry is deleted
RevokeSessionKeyDelete(st, sender, self, d) ==
    IF ~OnlyDelegatingAccount(sender, self) THEN Revert(st, "Not delegating account")
    ELSE Ok([st EXCEPT !.sessionKeys[self][sender][d.sessionKey] = ZeroKey])

RevokeSessionKey(st, sender, self, d) ==
    IF ~OnlyDelegatingAccount(sender, self) THEN Revert(st, "Not delegating account")
    ELSE Ok([st EXCEPT !.sessionKeys[self][sender][d.sessionKey].isActive = FALSE])

\* a faulty variant of ExecuteWithSessionKey: the call is made before the value is
\* compared with the limit
ExecuteWithSessionKeyCallFirst(st, t, origin, sender, self, d) ==
    IF ~OnlyAccountOrSession(st, self, t, origin, sender) THEN Revert(st, "Unauthorized")
    ELSE LET account == origin
             sessionKey == st.sessionKeys[self][account][sender]
         IN  IF ~sessionKey.isActive THEN Revert(st, "Session key not active")
             ELSE IF ~(t <= sessionKey.validUntil) THEN Revert(st, "Session key expired")
             ELSE LET r == ExternalCall(st, t, origin, self, d.target, d.value, d.data)
                  IN  IF ~r.ok THEN r
                      ELSE IF ~WithinLimit(d.value, sessionKey)
                           THEN [Revert(st, "Value exceeds session limit")
                                     EXCEPT !.calls = r.calls]
                      ELSE r

\* a faulty variant of ExecuteWithSessionKey: maxValue is a budget that the calls
\* use up
ExecuteWithSessionKeyBudget(st, t, origin, sender, self, d) ==
    IF ~OnlyAccountOrSession(st, self, t, origin, sender) THEN Revert(st, "Unauthorized")
    ELSE LET account == origin
             sessionKey == st.sessionKeys[self][account][sender]
         IN  IF ~sessionKey.isActive THEN Revert(st, "Session key not active")
             ELSE IF ~(t <= sessionKey.validUntil) THEN Revert(st, "Session key expired")
             ELSE IF ~WithinLimit(d.value, sessionKey)
                  THEN Revert(st, "Value exceeds session limit")
             ELSE ExternalCall([st EXCEPT !.sessionKeys[self][account][sender].maxValue =
                                              @ - d.value],
                               t, origin, self, d.target, d.value, d.data)

ExecuteWithSessionKey(st, t, origin, sender, self, d) ==
    IF ~OnlyAccountOrSession(st, self, t, origin, sender) THEN Revert(st, "Unauthorized")
    ELSE LET account == origin
             sessionKey == st.sessionKeys[self][account][sender]
         IN  IF ~sessionKey.isActive THEN Revert(st, "Session key not active")
             ELSE IF ~(t <= sessionKey.validUntil) THEN Revert(st, "Session key expired")
             ELSE IF ~WithinLimit(d.value, sessionKey)
                  THEN Revert(st, "Value exceeds session limit")
             ELSE ExternalCall(st, t, origin, self, d.target, d.value, d.data)

\* the code an account runs when it is called: function dispatch
DelegateCode(st, t, origin, sender, self, value, d) ==
    IF d.fn = "receive" THEN Ok(st)
    ELSE IF value > 0 THEN Revert(st, "")
    ELSE CASE d.fn = "executeBatch" -> ExecuteBatch(st, t, origin, sender, self, d)
           [] d.fn = "addSessionKey" -> AddSessionKey(st, sender, self, d)
           [] d.fn = "revokeSessionKey" -> RevokeSessionKey(st, sender, self, d)
           [] d.fn = "executeWithSessionKey" ->
                  ExecuteWithSessionKey(st, t, origin, sender, self, d)
           [] d.fn = "isValidSessionKey" ->
                  Return(st, IsValidSessionKey(st, self, t, d.sessionKey, d.account))
           [] d.fn = "getNonce" -> Return(st, st.nonces[self][d.account])
           [] OTHER -> Revert(st, "")

\* an external contract: hands on the call it is given (as msg.sender) and bubbles its
\* failure, reverts on "fail", accepts ether otherwise
RelayCode(st, t, origin, sender, self, value, d) ==
    CASE d.fn = "relay" ->
             Message(st, t, origin, self, d.call.target, d.call.value, d.call.data)
      [] d.fn = "fail" -> Revert(st, "TargetReverted")
      [] OTHER -> Ok(st)

\* an EVM message call: the value moves, then the target's code runs; a failure
\* leaves the state as it was before the call
Message(st, t, origin, from, target, value, d) ==
    IF st.balances[from] < value THEN Revert(st, "")
    ELSE LET st1 == [st EXCEPT !.balances = Pay(@, from, target, value)]
             r == CASE target \in Accounts ->
                          DelegateCode(st1, t, origin, from, target, value, d)
                    [] target = Relay -> RelayCode(st1, t, origin, from, target, value, d)
                    [] OTHER -> Ok(st1)
         IN  IF r.ok THEN r ELSE [r EXCEPT !.st = st]

\* target.call{value: value}(data) made by the delegate code of account `from`; the
\* record of the call keeps the counter `from` has stored while the call runs
ExternalCall(st, t, origin, from, target, value, d) ==
    LET r == Message(st, t, origin, from, target, value, d)
        entry == [from |-> from, target |-> target, value |-> value, fn |-> d.fn,
                  nonce |-> st.nonces[from][from],
                  ok |-> r.ok, reason |-> r.reason, depth |-> 0]
    IN  [r EXCEPT !.calls = <<entry>> \o Nested(@)]

----------------------------------------------------------------------------
(* Transactions *)

NoTx == [op |-> "none"]

World == [nonces |-> nonces, sessionKeys |-> sessionKeys, balances |-> balances,
          logs |-> <<>>]

\* the counters carried by the BatchExecuted records that `self` emitted, in order
RECURSIVE BatchNonces(_, _)
BatchNonces(logs, self) ==
    IF logs = <<>> THEN <<>>
    ELSE LET e == Head(logs)
             rest == BatchNonces(Tail(logs), self)
         IN  IF e.name = "BatchExecuted" /\ e.emitter = self
             THEN <<e.nonce>> \o rest ELSE rest

\* the state after a transaction whose outermost frame gave r, and its receipt:
\* `sender` called function d of account `to`; `earlier` is the ether that the
\* session calls which succeeded just before it, under the same key, had moved
CommitAfter(r, origin, sender, to, d, earlier) ==
    /\ nonces' = r.st.nonces
    /\ sessionKeys' = r.st.sessionKeys
    /\ balances' = r.st.balances
    /\ events' = [a \in Accounts |-> events[a] \o BatchNonces(r.st.logs, a)]
    /\ now' = now
    /\ lastTx' = [op |-> d.fn, origin |-> origin, sender |-> sender, to |-> to,
                  data |-> d, ok |-> r.ok, reason |-> r.reason, ret |-> r.ret,
                  logs |-> r.st.logs, calls |-> r.calls, earlier |-> earlier,
                  pre |-> [nonces |-> nonces, sessionKeys |-> sessionKeys,
                           balances |-> balances, events |-> events]]
    /\ UNCHANGED avars
    /\ UNCHANGED pvars
    /\ UNCHANGED fvars

Commit(r, origin, sender, to, d) == CommitAfter(r, origin, sender, to, d, 0)

\* origin signs a transaction that calls function d of account `to`
Direct(origin, to, d) == Message(World, now, origin, origin, to, 0, d)

\* origin signs a transaction to the external contract, which calls function d of `to`
ViaRelay(origin, to, d) ==
    Message(World, now, origin, origin, Relay, 0, RelayData(Call(to, 0, d)))

(* The inputs the transactions are drawn from.  Account A is exercised by its
   owner with the full repertoire; a foreign signer on A, and the signers A and B
   on the second account B, with a representative of each operation. *)

Primary == "A"
SessionKeyIds == {Delegate, Relay}
Full(o, a) == o = a /\ a = Primary

\* single calls: ether to the delegate, a failing target, the account calling itself
PayCalls == {Call(Delegate, v, Empty) : v \in 0..2}
FailCall == Call(Relay, 0, FailData)
SelfCalls(a) == {Call(a, 0, AddKey(Delegate, 1, 1)),
                 Call(a, 0, AddKey(Relay, 0, 2)),
                 Call(a, 0, Batch(<<Call(Delegate, 2, Empty)>>))}

\* the calls that batches of every length are made of, and the call by which a
\* batch re-enters executeBatch of its account
BatchCalls(a) == {Call(Delegate, 1, Empty), FailCall}
ReentrantCall(a) == Call(a, 0, Batch(<<>>))

\* calls by which account a reaches for the storage of the other delegating account
Other(a) == CHOOSE b \in Accounts : b # a
CrossCalls(a) == {Call(Other(a), 0, AddKey(Delegate, 1, 1)),
                  Call(Other(a), 0, Revoke(Delegate)),
                  Call(Other(a), 0, Batch(<<>>))}

RECURSIVE SeqsUpTo(_, _)
SeqsUpTo(S, n) ==
    IF n = 0 THEN {<<>>}
    ELSE LET shorter == SeqsUpTo(S, n - 1)
         IN  shorter \cup {Append(q, x) : q \in {p \in shorter : Len(p) = n - 1}, x \in S}

\* whether signer o takes part in the transactions sent to account a
Takes(o, a) == a = Primary \/ o \in Accounts

BatchesFor(o, a) ==
    IF Full(o, a)
    THEN SeqsUpTo(BatchCalls(a), MaxBatch)
         \cup {<<c>> : c \in CrossCalls(a) \cup {ReentrantCall(a)}}
    ELSE IF Takes(o, a) THEN {<<>>} ELSE {}

\* a key that account a holds on itself: it expires after the first second and
\* carries no value
OwnKey(a) == AddKey(a, 0, 0)

GrantsFor(o, a) ==
    IF Full(o, a)
    THEN {AddKey(Delegate, 1, 1), AddKey(Relay, 1, 1), AddKey(Relay, 0, 2)}
    ELSE IF Takes(o, a) THEN {IF a = Primary THEN AddKey(Delegate, 1, 1) ELSE OwnKey(a)}
    ELSE {}

RevokesFor(o, a) ==
    IF Full(o, a) THEN {Revoke(k) : k \in SessionKeyIds}
    ELSE IF o # a /\ Takes(o, a) THEN {Revoke(Delegate)} ELSE {}

SessionCalls(a) == PayCalls \cup {FailCall} \cup SelfCalls(a)

SessionCallsFor(o, a) ==
    IF a = Primary /\ o = Delegate THEN SessionCalls(a)
    ELSE IF Takes(o, a) THEN {Call(Delegate, 1, Empty)} ELSE {}

QueriesFor(o, a) ==
    IF o # Delegate THEN {}
    ELSE IF a = Primary THEN {IsValidQ(k, a) : k \in SessionKeyIds}
    ELSE {IsValidQ(a, a)}

RelayedFor(o, a) ==
    IF Full(o, a)
    THEN {WithKey(c.target, c.value, c.data) : c \in SessionCalls(a) \cup CrossCalls(a)}
         \cup {Batch(<<>>), AddKey(Delegate, 1, 1), Revoke(Delegate)}
    ELSE IF a = Primary /\ o = Delegate THEN {WithKey(Delegate, 1, Empty)}
    ELSE IF o = Primary THEN {Batch(<<>>), AddKey(Delegate, 1, 1), Revoke(Delegate)}
    ELSE {}

ExecuteBatchTx(origin, to, d) ==
    /\ lastTx = NoTx
    /\ Commit(Direct(origin, to, d), origin, origin, to, d)

AddSessionKeyTx(origin, to, d) ==
    /\ lastTx = NoTx
    /\ Commit(Direct(origin, to, d), origin, origin, to, d)

RevokeSessionKeyTx(origin, to, d) ==
    /\ lastTx = NoTx
    /\ Commit(Direct(origin, to, d), origin, origin, to, d)

ExecuteWithSessionKeyTx(origin, to, d) ==
    /\ lastTx = NoTx
    /\ Commit(Direct(origin, to, d), origin, origin, to, d)

IsValidSessionKeyCall(origin, to, d) ==
    /\ lastTx = NoTx
    /\ Commit(Direct(origin, to, d), origin, origin, to, d)

RelayedTx(origin, to, d) ==
    /\ lastTx = NoTx
    /\ Commit(ViaRelay(origin, to, d), origin, Relay, to, d)

\* the session calls the key holder repeats
RepeatedCalls == {WithKey(Delegate, v, Empty) : v \in 1..2}

\* right after a session call of the relay succeeded, the relay makes another one
\* under the same key
RepeatedSessionTx(origin, to, d) ==
    /\ lastTx # NoTx
    /\ lastTx.op = "executeWithSessionKey" /\ lastTx.ok
    /\ lastTx.origin = origin /\ lastTx.sender = Relay /\ lastTx.to = to
    /\ CommitAfter(ViaRelay(origin, to, d), origin, Relay, to, d,
                   lastTx.earlier + lastTx.data.value)

\* the next block: its timestamp is that of the last one or later
NewBlock(dt) ==
    /\ IF dt = 0 THEN lastTx # NoTx ELSE now < MaxTime
    /\ now' = now + dt
    /\ lastTx' = NoTx
    /\ UNCHANGED <<nonces, sessionKeys, balances, events>>
    /\ UNCHANGED avars
    /\ UNCHANGED pvars
    /\ UNCHANGED fvars

DelegateInit ==
    /\ nonces = [self \in Accounts |-> [a \in Addrs |-> 0]]
    /\ sessionKeys = [self \in Accounts |-> [a \in Addrs |-> [k \in Addrs |-> ZeroKey]]]
    /\ balances = [a \in Addrs |-> IF a \in Accounts THEN InitBal ELSE 0]
    /\ events = [a \in Accounts |-> <<>>]
    /\ now = 0
    /\ lastTx = NoTx

Next ==
    \/ \E o \in Origins, a \in Accounts : \E calls \in BatchesFor(o, a) :
           ExecuteBatchTx(o, a, Batch(calls))
    \/ \E o \in Origins, a \in Accounts : \E d \in GrantsFor(o, a) :
           AddSessionKeyTx(o, a, d)
    \/ \E o \in Origins, a \in Accounts : \E d \in RevokesFor(o, a) :
           RevokeSessionKeyTx(o, a, d)
    \/ \E o \in Origins, a \in Accounts : \E c \in SessionCallsFor(o, a) :
           ExecuteWithSessionKeyTx(o, a, WithKey(c.target, c.value, c.data))
    \/ \E o \in Origins, a \in Accounts : \E d \in QueriesFor(o, a) :
           IsValidSessionKeyCall(o, a, d)
    \/ \E o \in Origins, a \in Accounts : \E d \in RelayedFor(o, a) :
           RelayedTx(o, a, d)
    \/ \E d \in RepeatedCalls : RepeatedSessionTx(Primary, Primary, d)
    \/ \E dt \in {0, 1} : NewBlock(dt)

----------------------------------------------------------------------------
(* Account (src/EIP7702_README.md) *)

Acct == "ACC"
\* the entry point the account was constructed with; it accepts ether
EntryPoint == "EP"
\* EOAs: the first merchant, the first platform signer, a stranger
People == {"M", "P", "X"}
\* a contract that accepts no ether
Rejector == "R"
Callers == People \cup {EntryPoint}
AAddrs == Callers \cup {Rejector, Acct}

Hashes == {"h1", "h2"}

\* MessageHashUtils.toEthSignedMessageHash: the digest of the prefixed hash
EthSigned(h) == <<"Ethereum Signed Message", h>>

\* a well-formed signature made by p over a digest; the empty signature "0x"
Signature(p, digest) == [wellFormed |-> TRUE, signer |-> p, over |-> digest]
EmptySignature == [wellFormed |-> FALSE, signer |-> "", over |-> <<>>]
\* what a wallet's signMessage(hash) gives
SignMessage(p, h) == Signature(p, EthSigned(h))

\* the address a well-formed signature over another digest recovers to: nobody's
Unrelated == "0x?"

\* ECDSA.recover(hash, signature): the signer of that hash; it reverts on a
\* signature that is not well-formed
Recover(digest, sig) ==
    IF ~sig.wellFormed THEN [ok |-> FALSE, addr |-> ""]
    ELSE [ok |-> TRUE, addr |-> IF sig.over = digest THEN sig.signer ELSE Unrelated]

UserOp(sender, sig) == [sender |-> sender, signature |-> sig]
ValidateOp(op, h, funds) ==
    [fn |-> "validateUserOp", userOp |-> op, userOpHash |-> h, missingAccountFunds |-> funds]
SetPlatform(p) == [fn |-> "setPlatformSigner", arg |-> p]
SetMerchant(m) == [fn |-> "setMerchantAddress", arg |-> m]
UpdateEmail(e) == [fn |-> "updateEmail", arg |-> e]
Execute(dest, v, func) == [fn |-> "execute", dest |-> dest, value |-> v, func |-> func]
WithdrawData == [fn |-> "withdraw"]
DepositData == [fn |-> "deposit"]

RECURSIVE AMessage(_, _, _, _, _)
RECURSIVE AExternalCall(_, _, _, _, _)
RECURSIVE AccountCode(_, _, _, _)

\* a faulty variant of SelfOrPlatform: the merchant passes as well
SelfPlatformOrMerchant(st, sender) ==
    sender = Acct \/ sender = st.platformSigner \/ sender = st.merchantAddress

\* msg.sender == address(this) || msg.sender == platformSigner
SelfOrPlatform(st, sender) == sender = Acct \/ sender = st.platformSigner

SetPlatformSigner(st, sender, d) ==
    IF ~SelfOrPlatform(st, sender) THEN Revert(st, "Not authorized")
    ELSE Ok([st EXCEPT !.platformSigner = d.arg])

MaySetMerchant(st, sender) ==
    sender = Acct \/ sender = st.platformSigner \/ sender = st.merchantAddress

\* a faulty variant of SetMerchantAddress: the new merchant is not recorded
SetMerchantAddressLost(st, sender, d) ==
    IF ~MaySetMerchant(st, sender) THEN Revert(st, "Not authorized") ELSE Ok(st)

SetMerchantAddress(st, sender, d) ==
    IF ~MaySetMerchant(st, sender) THEN Revert(st, "Not authorized")
    ELSE Ok([st EXCEPT !.merchantAddress = d.arg])

UpdateEmailFn(st, sender, d) ==
    IF ~SelfOrPlatform(st, sender) THEN Revert(st, "Not authorized")
    ELSE Ok([st EXCEPT !.userEmail = d.arg])

\* a faulty variant of HandleMissingFunds: the result of the payment is not looked at
HandleMissingFundsUnchecked(st, sender, missingAccountFunds) ==
    IF missingAccountFunds > 0
    THEN LET r == AExternalCall(st, Acct, sender, missingAccountFunds, Empty)
         IN  IF ~r.ok THEN [Ok(st) EXCEPT !.calls = r.calls] ELSE r
    ELSE Ok(st)

\* _handleMissingFunds: pays msg.sender and requires the payment to succeed
HandleMissingFunds(st, sender, missingAccountFunds) ==
    IF missingAccountFunds > 0
    THEN LET r == AExternalCall(st, Acct, sender, missingAccountFunds, Empty)
         IN  IF ~r.ok
             THEN [Revert(st, "Failed to transfer missingAccountFunds")
                      EXCEPT !.calls = r.calls]
             ELSE r
    ELSE Ok(st)

\* a faulty variant of MatchesAuthority: the platform signer is not looked at
MatchesMerchantOnly(st, recoveredSigner) == recoveredSigner = st.merchantAddress

\* recoveredSigner == merchantAddress, then recoveredSigner == platformSigner
MatchesAuthority(st, recoveredSigner) ==
    recoveredSigner = st.merchantAddress \/ recoveredSigner = st.platformSigner

ValidateUserOp(st, sender, d) ==
    LET hash == EthSigned(d.userOpHash)
        rec == Recover(hash, d.userOp.signature)
    IN  IF ~rec.ok THEN Revert(st, "ECDSAInvalidSignatureLength")
        ELSE IF MatchesAuthority(st, rec.addr)
        THEN LET r == HandleMissingFunds(st, sender, d.missingAccountFunds)
             IN  IF r.ok THEN [r EXCEPT !.ret = 0] ELSE r
        ELSE Return(st, 1)

\* a faulty variant of MayExecute: no caller is turned away
AnybodyMayExecute(st, sender) == TRUE

\* the require of execute
MayExecute(st, sender) ==
    \/ sender = Acct
    \/ sender = st.platformSigner
    \/ sender = st.merchantAddress
    \/ sender = EntryPoint

ExecuteFn(st, sender, d) ==
    IF ~MayExecute(st, sender) THEN Revert(st, "Account: not authorized")
    ELSE AExternalCall(st, Acct, d.dest, d.value, d.func)

Withdraw(st, sender) ==
    IF sender # st.merchantAddress THEN Revert(st, "Not authorized")
    ELSE LET r == AExternalCall(st, Acct, st.merchantAddress, st.ether[Acct], Empty)
         IN  IF ~r.ok THEN [Revert(st, "Failed to withdraw") EXCEPT !.calls = r.calls]
             ELSE r

Deposit(st, sender, value) ==
    IF sender # st.merchantAddress THEN Revert(st, "Not authorized")
    ELSE LET r == AExternalCall(st, Acct, Acct, value, Empty)
         IN  IF ~r.ok THEN [Revert(st, "Failed to deposit") EXCEPT !.calls = r.calls]
             ELSE r

\* the code of the Account contract: function dispatch
AccountCode(st, sender, value, d) ==
    IF d.fn = "receive" THEN Ok(st)
    ELSE IF d.fn = "deposit" THEN Deposit(st, sender, value)
    ELSE IF value > 0 THEN Revert(st, "")
    ELSE CASE d.fn = "setPlatformSigner" -> SetPlatformSigner(st, sender, d)
           [] d.fn = "setMerchantAddress" -> SetMerchantAddress(st, sender, d)
           [] d.fn = "updateEmail" -> UpdateEmailFn(st, sender, d)
           [] d.fn = "validateUserOp" -> ValidateUserOp(st, sender, d)
           [] d.fn = "execute" -> ExecuteFn(st, sender, d)
           [] d.fn = "withdraw" -> Withdraw(st, sender)
           [] OTHER -> Revert(st, "")

\* a message call in the Account's world
AMessage(st, from, target, value, d) ==
    IF st.ether[from] < value THEN Revert(st, "")
    ELSE LET st1 == [st EXCEPT !.ether = Pay(@, from, target, value)]
             r == CASE target = Acct -> AccountCode(st1, from, value, d)
                    [] target = Rejector -> Revert(st1, "")
                    [] OTHER -> Ok(st1)
         IN  IF r.ok THEN r ELSE [r EXCEPT !.st = st]

\* a call made by the Account's code
AExternalCall(st, from, target, value, d) ==
    LET r == AMessage(st, from, target, value, d)
        entry == [from |-> from, target |-> target, value |-> value, fn |-> d.fn,
                  ok |-> r.ok, reason |-> r.reason, depth |-> 0]
    IN  [r EXCEPT !.calls = <<entry>> \o Nested(@)]

AWorld == [platformSigner |-> platformSigner, merchantAddress |-> merchantAddress,
           userEmail |-> userEmail, ether |-> ether]

\* caller c calls function d of the Account, sending value; prior is what is kept
\* of the call made just before it
ACommitAfter(c, value, d, prior) ==
    LET r == AMessage(AWorld, c, Acct, value, d)
    IN  /\ platformSigner' = r.st.platformSigner
        /\ merchantAddress' = r.st.merchantAddress
        /\ userEmail' = r.st.userEmail
        /\ ether' = r.st.ether
        /\ lastOp' = [op |-> d.fn, sender |-> c, value |-> value, data |-> d,
                      ok |-> r.ok, reason |-> r.reason, ret |-> r.ret,
                      calls |-> r.calls, pre |-> AWorld, prior |-> prior]
        /\ UNCHANGED dvars
        /\ UNCHANGED pvars
        /\ UNCHANGED fvars

ACommit(c, value, d) == ACommitAfter(c, value, d, NoTx)

(* The inputs the calls are drawn from *)

Emails == {"a@x", "b@x"}

Signatures == {SignMessage(p, "h1") : p \in People} \cup {EmptySignature}

\* the callers validateUserOp is tried from
Validators == {EntryPoint, "X", Rejector}

UserOps == {UserOp(s, sig) : s \in {Acct, "X"}, sig \in Signatures}

ExecCalls ==
    {Call("X", 1, Empty), Call(Rejector, 1, Empty),
     Call(Acct, 0, SetPlatform("X")),
     Call(Acct, 0, UpdateEmail("b@x")),
     Call(Acct, 0, ValidateOp(UserOp(Acct, SignMessage("M", "h1")), "h1", 1)),
     Call(Acct, 0, WithdrawData)}

\* the calls tried right after a change of merchant or platform signer
FollowUps ==
    {ValidateOp(UserOp(Acct, SignMessage(p, "h1")), "h1", 0) : p \in People}
        \cup {Execute("X", 1, Empty), WithdrawData, SetMerchant("M"), SetPlatform("P")}

SetPlatformSignerCall(c, p) ==
    /\ lastOp = NoTx
    /\ ACommit(c, 0, SetPlatform(p))

SetMerchantAddressCall(c, m) ==
    /\ lastOp = NoTx
    /\ ACommit(c, 0, SetMerchant(m))

UpdateEmailCall(c, e) ==
    /\ lastOp = NoTx
    /\ ACommit(c, 0, UpdateEmail(e))

ValidateUserOpCall(c, op, h, funds) ==
    /\ lastOp = NoTx
    /\ ACommit(c, 0, ValidateOp(op, h, funds))

ExecuteCall(c, x) ==
    /\ lastOp = NoTx
    /\ ACommit(c, 0, Execute(x.target, x.value, x.data))

WithdrawCall(c) ==
    /\ lastOp = NoTx
    /\ ACommit(c, 0, WithdrawData)

DepositCall(c, v) ==
    /\ lastOp = NoTx
    /\ ACommit(c, v, DepositData)

\* the next call arrives right after a successful setMerchantAddress or
\* setPlatformSigner
CallAfterChange(c, d) ==
    /\ lastOp # NoTx
    /\ lastOp.op \in {"setMerchantAddress", "setPlatformSigner"}
    /\ lastOp.ok
    /\ ACommitAfter(c, 0, d, [op |-> lastOp.op, data |-> lastOp.data,
                              pre |-> lastOp.pre])

\* the outcome has been read
Settle ==
    /\ lastOp # NoTx
    /\ lastOp' = NoTx
    /\ UNCHANGED <<platformSigner, merchantAddress, userEmail, ether>>
    /\ UNCHANGED dvars
    /\ UNCHANGED pvars
    /\ UNCHANGED fvars

AccountInit ==
    /\ platformSigner = "P"
    /\ merchantAddress = "M"
    /\ userEmail = "a@x"
    /\ ether = [a \in AAddrs |-> IF a = Acct THEN InitBal ELSE IF a = "M" THEN 1 ELSE 0]
    /\ lastOp = NoTx

AccountNext ==
    \/ \E c \in Callers, p \in {"P", "X"} : SetPlatformSignerCall(c, p)
    \/ \E c \in Callers, m \in {"M", "X"} : SetMerchantAddressCall(c, m)
    \/ \E c \in People, e \in Emails : UpdateEmailCall(c, e)
    \/ \E c \in Validators, op \in UserOps, h \in Hashes, funds \in 0..MaxFunds :
           ValidateUserOpCall(c, op, h, funds)
    \/ \E c \in Callers, x \in ExecCalls : ExecuteCall(c, x)
    \/ \E c \in {"M", "X"} : WithdrawCall(c)
    \/ \E c \in {"M", "X"} : DepositCall(c, 1)
    \/ \E c \in People, d \in FollowUps : CallAfterChange(c, d)
    \/ Settle

----------------------------------------------------------------------------
(* Paymaster (src/contracts/Paymaster.sol) *)

MAX_GAS_LIMIT == 10000000
\* 100 gwei; fees per gas are counted in gwei
MAX_FEE_PER_GAS == 100

Pm == "PM"
\* Ownable(msg.sender): the deployer
Owner == "O"
\* the accounts that operations are submitted for
Users == {"U1", "U2"}
PCallers == {Owner, "X", EntryPoint}
Wallets == {Owner, "X", EntryPoint, Pm}

\* packUints(high, low) of the scripts: two uint128 in one bytes32
PackUints(hi, lo) == [hi |-> hi, lo |-> lo]

\* _parseGasFees: maxFeePerGas is the high half, maxPriorityFeePerGas the low half
ParseGasFees(packedFees) == <<packedFees.hi, packedFees.lo>>

PmUserOp(sender, gas, fees) ==
    [sender |-> sender, preVerificationGas |-> gas, gasFees |-> fees]

AddSponsored(a) == [fn |-> "addSponsoredAccount", account |-> a]
RemoveSponsored(a) == [fn |-> "removeSponsoredAccount", account |-> a]
ValidatePm(op, maxCost) ==
    [fn |-> "validatePaymasterUserOp", userOp |-> op, maxCost |-> maxCost]
PostOpData(context, cost) ==
    [fn |-> "postOp", context |-> context, actualGasCost |-> cost]
PmDepositData == [fn |-> "deposit"]
GetDepositData == [fn |-> "getDeposit"]
WithdrawFromEP(amount) == [fn |-> "withdrawFromEntryPoint", amount |-> amount]
PmWithdrawData == [fn |-> "withdraw"]
ShutdownData == [fn |-> "shutdown"]

\* a faulty variant of OnlyOwner: anybody is let in
AnyCaller(sender) == TRUE

\* modifier onlyOwner
OnlyOwner(sender) == sender = Owner

\* a faulty variant of NotShutdown: the flag is not looked at
NeverShutdown(st) == TRUE

\* modifier notShutdown
NotShutdown(st) == ~st.isShutdown

\* a faulty variant of HasFunds: a deposit equal to the cost is not enough
HasFundsStrict(balance, maxCost) == balance > maxCost

\* entryPoint.balanceOf(address(this)) >= maxCost
HasFunds(balance, maxCost) == balance >= maxCost

\* a faulty variant of Charged: every operation counts for one
ChargedOne(used, cost) == used + 1

\* accountGasUsage[userAccount] += actualGasCost
Charged(used, cost) == used + cost

\* entryPoint.balanceOf(paymaster)
BalanceOf(st) == st.entryPointDeposit

\* entryPoint.depositTo{value}(paymaster), the value coming from the paymaster
DepositTo(st, value) ==
    [st EXCEPT !.wallet = [@ EXCEPT ![Pm] = @ - value],
               !.entryPointDeposit = @ + value]

\* entryPoint.withdrawTo(to, amount): fails beyond the deposit
WithdrawTo(st, to, amount) ==
    IF amount > st.entryPointDeposit THEN Revert(st, "Withdraw amount too large")
    ELSE Ok([st EXCEPT !.entryPointDeposit = @ - amount,
                       !.wallet = [@ EXCEPT ![to] = @ + amount]])

\* payable(owner()).transfer(address(this).balance)
TransferAll(st) == [st EXCEPT !.wallet = Pay(@, Pm, Owner, @[Pm])]

AddSponsoredAccount(st, sender, d) ==
    IF ~OnlyOwner(sender) THEN Revert(st, "OwnableUnauthorizedAccount")
    ELSE Ok([st EXCEPT !.sponsoredAccounts[d.account] = TRUE])

RemoveSponsoredAccount(st, sender, d) ==
    IF ~OnlyOwner(sender) THEN Revert(st, "OwnableUnauthorizedAccount")
    ELSE Ok([st EXCEPT !.sponsoredAccounts[d.account] = FALSE])

ValidatePaymasterUserOp(st, sender, d) ==
    IF ~NotShutdown(st) THEN Revert(st, "Paymaster is shut down")
    ELSE IF EntryPoint # sender THEN Revert(st, "Invalid entry point")
    ELSE IF ~(d.userOp.preVerificationGas <= MAX_GAS_LIMIT)
         THEN Revert(st, "Gas limits too high")
    ELSE IF ~HasFunds(BalanceOf(st), d.maxCost)
         THEN Revert(st, "Insufficient funds for gas")
    ELSE IF ~(ParseGasFees(d.userOp.gasFees)[1] <= MAX_FEE_PER_GAS)
         THEN Revert(st, "Gas fee too high")
    ELSE IF ~st.sponsoredAccounts[d.userOp.sender]
         THEN Revert(st, "Account not sponsored")
    ELSE Return(st, [context |-> d.userOp.sender, validationData |-> 0])

\* a faulty variant of PostOp: the caller is not looked at
PostOpByAnybody(st, sender, d) ==
    IF ~NotShutdown(st) THEN Revert(st, "Paymaster is shut down")
    ELSE Ok([st EXCEPT !.accountGasUsage[d.context] = Charged(@, d.actualGasCost)])

PostOp(st, sender, d) ==
    IF ~NotShutdown(st) THEN Revert(st, "Paymaster is shut down")
    ELSE IF EntryPoint # sender THEN Revert(st, "Invalid entry point")
    ELSE LET userAccount == d.context
         IN  IF Charged(st.accountGasUsage[userAccount], d.actualGasCost) > UintMax
             THEN Revert(st, "Panic(0x11)")
             ELSE Ok([st EXCEPT !.accountGasUsage[userAccount] =
                                   Charged(@, d.actualGasCost)])

PaymasterDeposit(st, sender, value) ==
    IF ~OnlyOwner(sender) THEN Revert(st, "OwnableUnauthorizedAccount")
    ELSE Ok(DepositTo(st, value))

GetDeposit(st) == Return(st, BalanceOf(st))

WithdrawFromEntryPoint(st, sender, d) ==
    IF ~OnlyOwner(sender) THEN Revert(st, "OwnableUnauthorizedAccount")
    ELSE WithdrawTo(st, Owner, d.amount)

PaymasterWithdraw(st, sender) ==
    IF ~OnlyOwner(sender) THEN Revert(st, "OwnableUnauthorizedAccount")
    ELSE IF ~NotShutdown(st) THEN Revert(st, "Paymaster is shut down")
    ELSE Ok(TransferAll(st))

\* a faulty variant of Shutdown: it can be called once only
ShutdownOnce(st, sender) ==
    IF ~OnlyOwner(sender) THEN Revert(st, "OwnableUnauthorizedAccount")
    ELSE IF ~NotShutdown(st) THEN Revert(st, "Paymaster is shut down")
    ELSE Ok(TransferAll([st EXCEPT !.isShutdown = TRUE]))

Shutdown(st, sender) ==
    IF ~OnlyOwner(sender) THEN Revert(st, "OwnableUnauthorizedAccount")
    ELSE Ok(TransferAll([st EXCEPT !.isShutdown = TRUE]))

\* the code of the Paymaster contract: function dispatch
PaymasterCode(st, sender, value, d) ==
    IF d.fn = "receive" THEN Ok(st)
    ELSE IF d.fn = "deposit" THEN PaymasterDeposit(st, sender, value)
    ELSE IF value > 0 THEN Revert(st, "")
    ELSE CASE d.fn = "addSponsoredAccount" -> AddSponsoredAccount(st, sender, d)
           [] d.fn = "removeSponsoredAccount" -> RemoveSponsoredAccount(st, sender, d)
           [] d.fn = "validatePaymasterUserOp" -> ValidatePaymasterUserOp(st, sender, d)
           [] d.fn = "postOp" -> PostOp(st, sender, d)
           [] d.fn = "getDeposit" -> GetDeposit(st)
           [] d.fn = "withdrawFromEntryPoint" -> WithdrawFromEntryPoint(st, sender, d)
           [] d.fn = "withdraw" -> PaymasterWithdraw(st, sender)
           [] d.fn = "shutdown" -> Shutdown(st, sender)
           [] OTHER -> Revert(st, "")

\* a message call to the Paymaster
PMessage(st, from, value, d) ==
    IF st.wallet[from] < value THEN Revert(st, "")
    ELSE LET st1 == [st EXCEPT !.wallet = Pay(@, from, Pm, value)]
             r == PaymasterCode(st1, from, value, d)
         IN  IF r.ok THEN r ELSE [r EXCEPT !.st = st]

PWorld == [isShutdown |-> isShutdown, accountGasUsage |-> accountGasUsage,
           sponsoredAccounts |-> sponsoredAccounts, wallet |-> wallet,
           entryPointDeposit |-> entryPointDeposit]

\* What the entry point and the owner carry from one call to the next: the context
\* of an operation that was admitted and awaits its postOp, or the operation that was
\* turned down for want of funds and awaits a deposit
NoMemo == [kind |-> "none"]
Admitted(context) == [kind |-> "admitted", context |-> context]
TurnedDown(d) == [kind |-> "turnedDown", data |-> d]

Carry ==
    IF lastP = NoTx THEN NoMemo
    ELSE IF lastP.op = "validatePaymasterUserOp"
         THEN IF lastP.ok THEN Admitted(lastP.ret.context)
              ELSE IF lastP.reason = "Insufficient funds for gas"
                   THEN TurnedDown(lastP.data)
              ELSE NoMemo
    ELSE IF lastP.op = "postOp" THEN NoMemo
    ELSE lastP.memo

\* a new exchange starts, or the owner acts while an admitted operation is under way
OwnerMayAct == lastP = NoTx \/ Carry.kind = "admitted"

\* caller c calls function d of the Paymaster, sending value
PCommit(c, value, d, memo) ==
    LET r == PMessage(PWorld, c, value, d)
    IN  /\ isShutdown' = r.st.isShutdown
        /\ accountGasUsage' = r.st.accountGasUsage
        /\ sponsoredAccounts' = r.st.sponsoredAccounts
        /\ wallet' = r.st.wallet
        /\ entryPointDeposit' = r.st.entryPointDeposit
        /\ lastP' = [op |-> d.fn, sender |-> c, value |-> value, data |-> d,
                     ok |-> r.ok, reason |-> r.reason, ret |-> r.ret,
                     pre |-> PWorld, memo |-> memo]
        /\ UNCHANGED dvars
        /\ UNCHANGED avars
        /\ UNCHANGED fvars

(* The inputs the calls are drawn from *)

GasFees == {PackUints(MAX_FEE_PER_GAS, MAX_FEE_PER_GAS + 1),
            PackUints(MAX_FEE_PER_GAS + 1, 0)}

PmUserOps ==
    {PmUserOp(u, g, f) : u \in Users, g \in {MAX_GAS_LIMIT, MAX_GAS_LIMIT + 1},
                         f \in GasFees}

\* what a caller submits for validation: the entry point anything, others one sample
ValidationsBy(c) ==
    IF c = EntryPoint THEN {ValidatePm(op, m) : op \in PmUserOps, m \in 0..MaxCost}
    ELSE {ValidatePm(PmUserOp("U1", MAX_GAS_LIMIT, PackUints(MAX_FEE_PER_GAS, 0)), 0)}

\* the entry point reports the cost of the operation it had admitted; others try
PostOpsBy(c) ==
    IF c = EntryPoint
    THEN IF Carry.kind = "admitted"
         THEN {PostOpData(Carry.context, k) : k \in 0..MaxCost}
         ELSE {}
    ELSE IF lastP = NoTx THEN {PostOpData("U1", 1)} ELSE {}

AddSponsoredAccountCall(c, a) ==
    /\ lastP = NoTx
    /\ PCommit(c, 0, AddSponsored(a), NoMemo)

RemoveSponsoredAccountCall(c, a) ==
    /\ OwnerMayAct
    /\ PCommit(c, 0, RemoveSponsored(a), Carry)

\* a first submission, or the operation turned down before the last deposit again
ValidatePaymasterUserOpCall(c, d) ==
    /\ \/ lastP = NoTx
       \/ /\ lastP.op = "deposit" /\ lastP.memo = TurnedDown(d)
          /\ c = EntryPoint
    /\ PCommit(c, 0, d, Carry)

PostOpCall(c, d) ==
    /\ d \in PostOpsBy(c)
    /\ PCommit(c, 0, d, Carry)

PaymasterDepositCall(c, v) ==
    /\ lastP = NoTx \/ Carry.kind = "turnedDown"
    /\ PCommit(c, v, PmDepositData, Carry)

GetDepositCall(c) ==
    /\ lastP = NoTx
    /\ PCommit(c, 0, GetDepositData, NoMemo)

WithdrawFromEntryPointCall(c, amount) ==
    /\ OwnerMayAct
    /\ PCommit(c, 0, WithdrawFromEP(amount), Carry)

PaymasterWithdrawCall(c) ==
    /\ OwnerMayAct
    /\ PCommit(c, 0, PmWithdrawData, Carry)

ShutdownCall(c) ==
    /\ OwnerMayAct
    /\ PCommit(c, 0, ShutdownData, Carry)

\* ether sent to the paymaster
PaymasterReceive(c, v) ==
    /\ lastP = NoTx
    /\ PCommit(c, v, Empty, NoMemo)

\* the exchange is over
PaymasterSettle ==
    /\ lastP # NoTx
    /\ lastP' = NoTx
    /\ UNCHANGED <<isShutdown, accountGasUsage, sponsoredAccounts, wallet,
                   entryPointDeposit>>
    /\ UNCHANGED dvars
    /\ UNCHANGED avars
    /\ UNCHANGED fvars

PaymasterInit ==
    /\ isShutdown = FALSE
    /\ accountGasUsage = [u \in Users |-> 0]
    /\ sponsoredAccounts = [u \in Users |-> FALSE]
    /\ wallet = [a \in Wallets |-> IF a = Owner THEN OwnerFunds
                                   ELSE IF a = "X" THEN 1 ELSE 0]
    /\ entryPointDeposit = 0
    /\ lastP = NoTx

PaymasterNext ==
    \/ \E c \in PCallers, a \in Users : AddSponsoredAccountCall(c, a)
    \/ \E c \in PCallers, a \in Users : RemoveSponsoredAccountCall(c, a)
    \/ \E c \in {EntryPoint, "X"} : \E d \in ValidationsBy(c) :
           ValidatePaymasterUserOpCall(c, d)
    \/ \E c \in {EntryPoint, "X"}, u \in Users, k \in 0..MaxCost :
           PostOpCall(c, PostOpData(u, k))
    \/ \E c \in {Owner, "X"} : PaymasterDepositCall(c, 1)
    \/ \E c \in {Owner, "X"} : GetDepositCall(c)
    \/ \E c \in {Owner, "X"}, amount \in 1..MaxCost : WithdrawFromEntryPointCall(c, amount)
    \/ \E c \in {Owner, "X"} : PaymasterWithdrawCall(c)
    \/ \E c \in {Owner, "X"} : ShutdownCall(c)
    \/ PaymasterReceive(Owner, 1)
    \/ PaymasterSettle

----------------------------------------------------------------------------
(* AccountFactory (src/contracts/AccountFactory.sol) *)

\* address(0), the value of a mapping entry never written; the n-th contract the
\* factory constructs has address n
Zero == 0

\* keccak256(abi.encodePacked(_email))
Keccak(email) == <<"keccak256", email>>

EmailHashes == {Keccak(e) : e \in Emails}

Merchants == {"M", "X"}

CreateData(email, merchant) ==
    [fn |-> "createAccount", email |-> email, merchantAddress |-> merchant]
BatchCreateData(emails, merchants) ==
    [fn |-> "batchCreateAccounts", emails |-> emails, merchantAddresses |-> merchants]
UpdateSignerData(p) == [fn |-> "updatePlatformSigner", arg |-> p]

\* new Account(entryPoint, platformSigner, _merchantAddress, _email)
NewAccount(st, email, merchant) ==
    [entryPoint |-> EntryPoint, platformSigner |-> st.platformSigner,
     merchantAddress |-> merchant, userEmail |-> email]

UpdatePlatformSigner(st, sender, d) ==
    IF sender # st.platformSigner THEN Revert(st, "Not authorized")
    ELSE Ok([st EXCEPT !.platformSigner = d.arg])

\* a faulty variant of CreateAccount: an email already entered is entered again
CreateAccountAgain(st, email, merchant) ==
    LET newAccount == Len(st.deployed) + 1
        emailHash == Keccak(email)
    IN  Return([st EXCEPT
                   !.deployed = Append(@, NewAccount(st, email, merchant)),
                   !.accountsByEmailHash[emailHash] = newAccount,
                   !.accountsByMerchantAddress[merchant] = newAccount,
                   !.accountCreated =
                        Append(@, [emailHash |-> emailHash, account |-> newAccount,
                                   merchantAddress |-> merchant])],
               newAccount)

CreateAccount(st, email, merchant) ==
    IF st.accountsByEmailHash[Keccak(email)] # Zero
    THEN Revert(st, "Account already exists")
    ELSE LET newAccount == Len(st.deployed) + 1
             emailHash == Keccak(email)
         IN  Return([st EXCEPT
                        !.deployed = Append(@, NewAccount(st, email, merchant)),
                        !.accountsByEmailHash[emailHash] = newAccount,
                        !.accountsByMerchantAddress[merchant] = newAccount,
                        !.accountCreated =
                             Append(@, [emailHash |-> emailHash,
                                        account |-> newAccount,
                                        merchantAddress |-> merchant])],
                    newAccount)

\* the loop of batchCreateAccounts from index i on (indices from 1); reading
\* _merchantAddresses beyond its length fails
RECURSIVE BatchCreateFrom(_, _, _, _, _)
BatchCreateFrom(st, emails, merchants, i, accounts) ==
    IF i > Len(emails) THEN Return(st, accounts)
    ELSE IF i > Len(merchants) THEN Revert(st, "Panic(0x32)")
    ELSE LET r == CreateAccount(st, emails[i], merchants[i])
         IN  IF ~r.ok THEN r
             ELSE BatchCreateFrom(r.st, emails, merchants, i + 1,
                                  Append(accounts, r.ret))

BatchCreateAccounts(st, d) ==
    BatchCreateFrom(st, d.emails, d.merchantAddresses, 1, <<>>)

\* the code of the AccountFactory: function dispatch
FactoryCode(st, sender, d) ==
    CASE d.fn = "updatePlatformSigner" -> UpdatePlatformSigner(st, sender, d)
      [] d.fn = "createAccount" -> CreateAccount(st, d.email, d.merchantAddress)
      [] d.fn = "batchCreateAccounts" -> BatchCreateAccounts(st, d)
      [] OTHER -> Revert(st, "")

\* a message call to the AccountFactory: a failed call leaves nothing behind
FMessage(st, from, d) ==
    LET r == FactoryCode(st, from, d)
    IN  IF r.ok THEN r ELSE [r EXCEPT !.st = st]

FWorld == [accountsByEmailHash |-> accountsByEmailHash,
           accountsByMerchantAddress |-> accountsByMerchantAddress,
           platformSigner |-> factoryPlatformSigner,
           deployed |-> deployed, accountCreated |-> accountCreated]

\* caller c calls function d of the AccountFactory
FCommit(c, d) ==
    LET r == FMessage(FWorld, c, d)
    IN  /\ accountsByEmailHash' = r.st.accountsByEmailHash
        /\ accountsByMerchantAddress' = r.st.accountsByMerchantAddress
        /\ factoryPlatformSigner' = r.st.platformSigner
        /\ deployed' = r.st.deployed
        /\ accountCreated' = r.st.accountCreated
        /\ lastF' = [op |-> d.fn, sender |-> c, data |-> d, ok |-> r.ok,
                     reason |-> r.reason, ret |-> r.ret, pre |-> FWorld]
        /\ UNCHANGED dvars
        /\ UNCHANGED avars
        /\ UNCHANGED pvars

UpdatePlatformSignerCall(c, p) ==
    /\ lastF = NoTx
    /\ FCommit(c, UpdateSignerData(p))

CreateAccountCall(c, email, merchant) ==
    /\ lastF = NoTx
    /\ FCommit(c, CreateData(email, merchant))

BatchCreateAccountsCall(c, emails, merchants) ==
    /\ lastF = NoTx
    /\ FCommit(c, BatchCreateData(emails, merchants))

\* the outcome has been read
FactorySettle ==
    /\ lastF # NoTx
    /\ lastF' = NoTx
    /\ UNCHANGED <<accountsByEmailHash, accountsByMerchantAddress,
                   factoryPlatformSigner, deployed, accountCreated>>
    /\ UNCHANGED dvars
    /\ UNCHANGED avars
    /\ UNCHANGED pvars

\* constructor(_platformSigner, _entryPoint)
FactoryInit ==
    /\ accountsByEmailHash = [h \in EmailHashes |-> Zero]
    /\ accountsByMerchantAddress = [m \in Merchants |-> Zero]
    /\ factoryPlatformSigner = "P"
    /\ deployed = <<>>
    /\ accountCreated = <<>>
    /\ lastF = NoTx

FactoryNext ==
    \/ \E c \in {"P", "X"}, p \in {"P", "X"} : UpdatePlatformSignerCall(c, p)
    \/ \E c \in Merchants, e \in Emails, m \in Merchants : CreateAccountCall(c, e, m)
    \/ \E c \in Merchants, es \in SeqsUpTo(Emails, MaxBatch),
          ms \in SeqsUpTo(Merchants, MaxBatch) : BatchCreateAccountsCall(c, es, ms)
    \/ FactorySettle

----------------------------------------------------------------------------
(* Specifications *)

Init == DelegateInit /\ AccountInit /\ PaymasterInit /\ FactoryInit

\* the delegating accounts and their session keys
Spec == Init /\ [][Next]_vars

\* the ERC-4337 Account
SpecAccount == Init /\ [][AccountNext]_vars

\* the Paymaster
SpecPaymaster == Init /\ [][PaymasterNext]_vars

\* the AccountFactory alone
SpecFactory == Init /\ [][FactoryNext]_vars

\* the delegating accounts or the Account, whichever is called first
EitherNext ==
    \/ lastOp = NoTx /\ AccountInit /\ Next
    \/ lastTx = NoTx /\ now = 0 /\ DelegateInit /\ AccountNext

SpecEither == Init /\ [][EitherNext]_vars

\* the delegating accounts alone, or the paymaster alone: the two contracts that
\* keep counters
CountersNext ==
    \/ lastP = NoTx /\ PaymasterInit /\ Next
    \/ lastTx = NoTx /\ now = 0 /\ DelegateInit /\ PaymasterNext

SpecCounters == Init /\ [][CountersNext]_vars

----------------------------------------------------------------------------
(* Properties of EIP7702Delegate *)

\* what a transaction can change, before and after it
Before == lastTx.pre
After == [nonces |-> nonces, sessionKeys |-> sessionKeys, balances |-> balances,
          events |-> events]

\* the session-key entry that executeWithSessionKey reads for the last transaction
UsedKey == Before.sessionKeys[lastTx.to][lastTx.origin][lastTx.sender]

\* the last transaction called executeWithSessionKey and got past its checks: it made
\* the requested call
Accepted ==
    /\ lastTx.calls # <<>>
    /\ lastTx.calls[1].from = lastTx.to
    /\ lastTx.calls[1].target = lastTx.data.target
    /\ lastTx.calls[1].value = lastTx.data.value

HasNestedBatch(calls) == \E i \in 1..Len(calls) : calls[i].data.fn = "executeBatch"

\* C1: the replay counter of an account is 0 until one of its batches succeeds (it
\* equals the number of completion records the account has emitted), every
\* transaction raises it by exactly the number of batches that completed in it, and
\* a successful executeBatch whose calls do not re-enter executeBatch raises it by
\* exactly 1 whatever the number of its calls.
C1_CounterCountsBatches ==
    /\ \A a \in Accounts :
          /\ nonces[a][a] = Len(events[a])
          /\ \A x \in Addrs \ {a} : nonces[a][x] = 0
    /\ lastTx # NoTx =>
          /\ \A a \in Accounts :
                nonces[a][a] = Before.nonces[a][a] + Len(BatchNonces(lastTx.logs, a))
          /\ (lastTx.op = "executeBatch" /\ lastTx.ok
                 /\ ~HasNestedBatch(lastTx.data.calls)) =>
                nonces[lastTx.to][lastTx.to] = Before.nonces[lastTx.to][lastTx.to] + 1

\* a second batch of the account succeeded, with MaxBatch calls
C1_Witness ==
    /\ lastTx.op = "executeBatch" /\ lastTx.ok
    /\ Len(lastTx.data.calls) >= 2
    /\ ~HasNestedBatch(lastTx.data.calls)
    /\ Before.nonces[lastTx.to][lastTx.to] = 1
    /\ nonces[lastTx.to][lastTx.to] = 2

\* C2: executeBatch is atomic: a batch by the account that holds a failing call
\* fails as a whole, and a failed executeBatch leaves counters, session keys,
\* balances and records as they were and emits no completion record.
C2_BatchAtomic ==
    lastTx.op = "executeBatch" =>
        /\ (\E i \in 1..Len(lastTx.data.calls) : lastTx.data.calls[i] = FailCall)
               => ~lastTx.ok
        /\ ~lastTx.ok => After = Before /\ lastTx.logs = <<>>

\* a batch whose first call moved ether and whose second call failed
C2_Witness ==
    /\ lastTx.op = "executeBatch" /\ ~lastTx.ok
    /\ lastTx.data.calls = <<Call(Delegate, 1, Empty), FailCall>>
    /\ Before.balances[lastTx.to] >= 1
    /\ Len(lastTx.calls) = 2
    /\ lastTx.reason = "TargetReverted"

\* C3: isValidSessionKey answers true exactly for an active entry with
\* now <= validUntil: false for an inactive entry whatever its validUntil, false
\* once validUntil < now, true at now = validUntil, false for a delegate never
\* granted; and the query changes nothing.
C3_IsValid ==
    lastTx.op = "isValidSessionKey" =>
        LET key == sessionKeys[lastTx.to][lastTx.data.account][lastTx.data.sessionKey]
        IN  /\ lastTx.ok
            /\ ~key.isActive => lastTx.ret = FALSE
            /\ key.validUntil < now => lastTx.ret = FALSE
            /\ (key.isActive /\ now <= key.validUntil) => lastTx.ret = TRUE
            /\ key = ZeroKey => lastTx.ret = FALSE
            /\ After = Before /\ lastTx.logs = <<>> /\ lastTx.calls = <<>>

\* a query at the very second the key expires
C3_Witness ==
    /\ lastTx.op = "isValidSessionKey"
    /\ lastTx.ret = TRUE
    /\ now > 0
    /\ sessionKeys[lastTx.to][lastTx.data.account][lastTx.data.sessionKey].validUntil = now

\* C4: for a caller whose session key is active and unexpired,
\* executeWithSessionKey rejects every value above maxValue with "Value exceeds
\* session limit" before any call is made, and accepts value = maxValue (it makes
\* the requested call).
C4_ValueCap ==
    (lastTx.op = "executeWithSessionKey" /\ UsedKey.isActive /\ now <= UsedKey.validUntil) =>
        /\ lastTx.data.value > UsedKey.maxValue =>
               /\ ~lastTx.ok
               /\ lastTx.reason = "Value exceeds session limit"
               /\ lastTx.calls = <<>>
        /\ lastTx.data.value <= UsedKey.maxValue => Accepted

\* a call with value = maxValue > 0 that went through
C4_Witness ==
    /\ lastTx.op = "executeWithSessionKey" /\ lastTx.ok
    /\ UsedKey.isActive /\ now <= UsedKey.validUntil
    /\ lastTx.data.value = UsedKey.maxValue
    /\ lastTx.data.value > 0
    /\ balances[Delegate] = Before.balances[Delegate] + lastTx.data.value

\* a call with value = maxValue + 1 that was turned down
C4_WitnessReject ==
    /\ lastTx.op = "executeWithSessionKey" /\ ~lastTx.ok
    /\ UsedKey.isActive /\ now <= UsedKey.validUntil
    /\ lastTx.data.value = UsedKey.maxValue + 1

\* C5 (the claim): once account A has granted delegate D a key that it has not
\* revoked, a call of executeWithSessionKey that D sends to A with value <= maxValue
\* succeeds while now <= validUntil, leaving the counter alone, and is rejected as
\* Unauthorized once now > validUntil.
C5_DelegateCallSucceeds ==
    LET granted == Before.sessionKeys[lastTx.to][lastTx.to][Delegate]
    IN  (/\ lastTx.op = "executeWithSessionKey"
         /\ lastTx.origin = Delegate /\ lastTx.sender = Delegate
         /\ granted.isActive
         /\ lastTx.data.target = Delegate /\ lastTx.data.data = Empty
         /\ lastTx.data.value <= granted.maxValue
         /\ lastTx.data.value <= Before.balances[lastTx.to]) =>
            /\ now <= granted.validUntil =>
                   lastTx.ok /\ nonces[lastTx.to] = Before.nonces[lastTx.to]
            /\ now > granted.validUntil =>
                   ~lastTx.ok /\ lastTx.reason = "Unauthorized"

\* C6 (the claim): the session keys of an account change only in a transaction in
\* which the account itself is the direct caller of its own code.
C6_NoDelegationOfDelegation ==
    lastTx # NoTx =>
        \A a \in Accounts :
            sessionKeys[a] # Before.sessionKeys[a] => lastTx.to = a /\ lastTx.sender = a

\* C7 (the claim): when the direct caller of account A is not A, no executeBatch of
\* A completes and every call A makes carries at most the maxValue of the caller's
\* session key.
C7_NoBatchForDelegates ==
    (lastTx # NoTx /\ lastTx.ok /\ lastTx.sender # lastTx.to) =>
        /\ BatchNonces(lastTx.logs, lastTx.to) = <<>>
        /\ \A i \in 1..Len(lastTx.calls) :
               lastTx.calls[i].from = lastTx.to
                   => lastTx.calls[i].value <= UsedKey.maxValue

----------------------------------------------------------------------------
(* Properties of Account.validateUserOp *)

ABefore == lastOp.pre

Validated == lastOp.op = "validateUserOp"

PresentedSig == lastOp.data.userOp.signature

\* the presented signature is a well-formed one over the prefixed userOpHash, made
\* by the merchant or the platform signer the account had when it was called
Resolves ==
    /\ PresentedSig.wellFormed
    /\ PresentedSig.over = EthSigned(lastOp.data.userOpHash)
    /\ PresentedSig.signer \in {ABefore.merchantAddress, ABefore.platformSigner}

\* the account can pay the missing funds to its caller
CanPay ==
    /\ lastOp.data.missingAccountFunds <= ABefore.ether[Acct]
    /\ lastOp.sender # Rejector

Paid ==
    [from |-> Acct, target |-> lastOp.sender,
     value |-> lastOp.data.missingAccountFunds, fn |-> "receive",
     ok |-> CanPay, reason |-> "", depth |-> 0]

\* C8 (as stated): for a well-formed signature, validateUserOp returns 0 exactly
\* when the recovered signer is the current merchant or the current platform
\* signer, and returns 1 for every other recovered signer.
C8_ValidExactlyWhenSignerMatches ==
    (Validated /\ PresentedSig.wellFormed) =>
        /\ lastOp.ok
        /\ lastOp.ret = IF Resolves THEN 0 ELSE 1

\* C8 (amended): for a well-formed signature, validateUserOp returns 1 for every
\* recovered signer that is neither the current merchant nor the current platform
\* signer; for a signer that is one of them it returns 0 when no funds are missing
\* or the account can pay them to its caller, and fails with "Failed to transfer
\* missingAccountFunds" otherwise.  The sender field of the operation has no part in
\* the outcome.
C8_ValidWhenSignerMatchesAndPaid ==
    (Validated /\ PresentedSig.wellFormed) =>
        IF ~Resolves THEN lastOp.ok /\ lastOp.ret = 1
        ELSE IF lastOp.data.missingAccountFunds = 0 \/ CanPay
        THEN lastOp.ok /\ lastOp.ret = 0
        ELSE ~lastOp.ok /\ lastOp.reason = "Failed to transfer missingAccountFunds"

\* an operation naming a stranger as its sender, signed by the platform signer that
\* replaced the first one, is reported valid
C8_Witness ==
    /\ Validated /\ lastOp.ok /\ lastOp.ret = 0
    /\ ABefore.platformSigner = "X"
    /\ PresentedSig.signer = "X"
    /\ ABefore.merchantAddress # "X"
    /\ lastOp.data.userOp.sender = "X"

\* C9 (the claim): for every presented signature that does not resolve to the
\* merchant or the platform signer, validateUserOp returns 1 without failing, makes
\* no call and leaves the account's state and every balance as they were.
C9_UnauthorizedIsReported ==
    (Validated /\ ~Resolves) =>
        /\ lastOp.ok
        /\ lastOp.ret = 1
        /\ lastOp.calls = <<>>
        /\ AWorld = ABefore

\* C10: when validateUserOp resolves the merchant or the platform signer, then with
\* missingAccountFunds = 0 it makes no call and changes nothing; with
\* missingAccountFunds > 0 it makes the one call that pays its caller, and if that
\* call succeeds exactly missingAccountFunds moves from the account to the caller
\* and nothing else changes, and if it does not, validation fails with "Failed to
\* transfer missingAccountFunds" and changes nothing.
C10_MissingFunds ==
    (Validated /\ Resolves) =>
        IF lastOp.data.missingAccountFunds = 0
        THEN lastOp.ok /\ lastOp.calls = <<>> /\ AWorld = ABefore
        ELSE /\ lastOp.calls = <<Paid>>
             /\ IF CanPay
                THEN /\ lastOp.ok /\ lastOp.ret = 0
                     /\ AWorld = [ABefore EXCEPT
                            !.ether = Pay(@, Acct, lastOp.sender,
                                          lastOp.data.missingAccountFunds)]
                     /\ ether[Acct] = ABefore.ether[Acct]
                                         - lastOp.data.missingAccountFunds
                     /\ ether[lastOp.sender] = ABefore.ether[lastOp.sender]
                                                 + lastOp.data.missingAccountFunds
                ELSE /\ ~lastOp.ok
                     /\ lastOp.reason = "Failed to transfer missingAccountFunds"
                     /\ AWorld = ABefore

\* the entry point was paid all the account had
C10_Witness ==
    /\ Validated /\ lastOp.ok
    /\ lastOp.sender = EntryPoint
    /\ lastOp.data.missingAccountFunds > 0
    /\ lastOp.data.missingAccountFunds = ABefore.ether[Acct]
    /\ ether[Acct] = 0
    /\ ether[EntryPoint] = ABefore.ether[EntryPoint] + lastOp.data.missingAccountFunds

\* the account could not pay: validation failed
C10_WitnessAbort ==
    /\ Validated /\ ~lastOp.ok /\ Resolves
    /\ lastOp.data.missingAccountFunds > ABefore.ether[Acct]

----------------------------------------------------------------------------
(* Properties of Paymaster *)

PBefore == lastP.pre

Admit == lastP.op = "validatePaymasterUserOp"

\* the conditions of admission as the state before the call has them
GateOpen == ~PBefore.isShutdown
ByEntryPoint == lastP.sender = EntryPoint
GasWithinCeiling == lastP.data.userOp.preVerificationGas <= MAX_GAS_LIMIT
FeeWithinCeiling == lastP.data.userOp.gasFees.hi <= MAX_FEE_PER_GAS
Funded == PBefore.entryPointDeposit >= lastP.data.maxCost
Whitelisted == PBefore.sponsoredAccounts[lastP.data.userOp.sender]

\* C11: with every other condition of admission satisfied, validatePaymasterUserOp
\* accepts when the deposit at the entry point is at least maxCost (so at
\* deposit = maxCost) and rejects with "Insufficient funds for gas" when it is below
\* (so at deposit = maxCost - 1); an operation that was turned down for that reason
\* is accepted when it is submitted again, unchanged, once the deposit has reached
\* maxCost.
C11_FundedBalance ==
    (Admit /\ GateOpen /\ ByEntryPoint /\ GasWithinCeiling /\ FeeWithinCeiling
           /\ Whitelisted) =>
        /\ Funded => lastP.ok
        /\ ~Funded => ~lastP.ok /\ lastP.reason = "Insufficient funds for gas"
        /\ (lastP.memo = TurnedDown(lastP.data) /\ Funded) => lastP.ok

\* an operation turned down at deposit = maxCost - 1 was accepted, unchanged, after
\* a deposit had made the deposit equal to maxCost
C11_Witness ==
    /\ Admit /\ lastP.ok
    /\ lastP.memo = TurnedDown(lastP.data)
    /\ lastP.data.maxCost > 0
    /\ PBefore.entryPointDeposit = lastP.data.maxCost

\* C12 (the claim): when the entry point submits an operation for which several
\* conditions fail, the reason reported is that of the first failing one in the
\* order: shut down, gas above the ceiling, fee above the ceiling, deposit below
\* maxCost, sender not whitelisted.
C12_FirstFailingReason ==
    (Admit /\ ByEntryPoint /\ ~lastP.ok) =>
        lastP.reason =
            IF ~GateOpen THEN "Paymaster is shut down"
            ELSE IF ~GasWithinCeiling THEN "Gas limits too high"
            ELSE IF ~FeeWithinCeiling THEN "Gas fee too high"
            ELSE IF ~Funded THEN "Insufficient funds for gas"
            ELSE "Account not sponsored"

\* C13 (the claim): called by the entry point, validatePaymasterUserOp accepts
\* exactly when the gate is open, maxCost <= MAX_GAS_LIMIT, the fee is within its
\* ceiling, the deposit is at least maxCost and the sender is whitelisted: the cost
\* held against the gas ceiling is the one held against the deposit.
C13_AcceptsExactlyWhenAllHold ==
    (Admit /\ ByEntryPoint) =>
        (lastP.ok <=> /\ GateOpen
                      /\ lastP.data.maxCost <= MAX_GAS_LIMIT
                      /\ FeeWithinCeiling
                      /\ Funded
                      /\ Whitelisted)

\* the operation whose cost postOp reports had been admitted by
\* validatePaymasterUserOp
ReportsAdmitted ==
    /\ lastP.op = "postOp"
    /\ ByEntryPoint
    /\ lastP.memo = Admitted(lastP.data.context)

\* C14 (the claim): the postOp that the entry point calls for an operation that
\* validatePaymasterUserOp had admitted completes without error, whatever the owner
\* did in between.
C14_RecordUsageNeverFails == ReportsAdmitted => lastP.ok

\* C15 (as stated): a postOp that completes leaves the counter of its account
\* strictly above what it was.
C15_UsageStrictlyIncreases ==
    (lastP.op = "postOp" /\ lastP.ok) =>
        accountGasUsage[lastP.data.context] > PBefore.accountGasUsage[lastP.data.context]

\* C15 (amended): a postOp that completes sets the counter of its account to exactly
\* old + actualGasCost, which is above the old value when actualGasCost > 0 and
\* equal to it when actualGasCost = 0, and leaves every other counter as it was; no
\* other call, whitelist removal and shutdown included, and no failed postOp changes
\* any counter: no counter ever decreases.
C15_UsageAddsCost ==
    lastP # NoTx =>
        /\ \A u \in Users : accountGasUsage[u] >= PBefore.accountGasUsage[u]
        /\ IF lastP.op = "postOp" /\ lastP.ok
           THEN /\ accountGasUsage =
                       [PBefore.accountGasUsage EXCEPT
                           ![lastP.data.context] = @ + lastP.data.actualGasCost]
                /\ lastP.data.actualGasCost > 0 =>
                       accountGasUsage[lastP.data.context] >
                           PBefore.accountGasUsage[lastP.data.context]
           ELSE accountGasUsage = PBefore.accountGasUsage

\* usage is added to a counter that is not zero, for an account that has been taken
\* off the whitelist since it was admitted
C15_Witness ==
    /\ ReportsAdmitted /\ lastP.ok
    /\ lastP.data.actualGasCost > 0
    /\ PBefore.accountGasUsage[lastP.data.context] > 0
    /\ ~sponsoredAccounts[lastP.data.context]
    /\ accountGasUsage[lastP.data.context] = UintMax

AdminOps ==
    {"addSponsoredAccount", "removeSponsoredAccount", "shutdown", "deposit",
     "withdraw", "withdrawFromEntryPoint"}

\* C16: addSponsoredAccount, removeSponsoredAccount, shutdown, deposit, withdraw and
\* withdrawFromEntryPoint succeed only when the owner calls them; called by anybody
\* else they fail and leave whitelist, shutdown flag, usage counters, deposit and
\* every balance as they were.
C16_OnlyOwnerAdministers ==
    (lastP # NoTx /\ lastP.op \in AdminOps) =>
        /\ lastP.ok => lastP.sender = Owner
        /\ lastP.sender # Owner => ~lastP.ok /\ PWorld = PBefore

\* a stranger who holds ether called deposit with it, while the paymaster held ether
\* and a deposit, and failed
C16_Witness ==
    /\ lastP.op = "deposit" /\ lastP.sender = "X" /\ lastP.value > 0
    /\ PBefore.wallet["X"] >= lastP.value
    /\ ~lastP.ok
    /\ wallet[Pm] > 0 /\ entryPointDeposit > 0

\* C17: once isShutdown is set it stays set in every later state, and every
\* validatePaymasterUserOp called while it is set is rejected with "Paymaster is
\* shut down", whoever calls and whatever else holds.
C17_ShutdownOneWay ==
    [][/\ isShutdown => isShutdown'
       /\ (isShutdown /\ lastP'.op = "validatePaymasterUserOp") =>
              ~lastP'.ok /\ lastP'.reason = "Paymaster is shut down"]_vars

\* after the shutdown, an operation that meets every other condition was rejected
C17_Witness ==
    /\ Admit /\ ~lastP.ok /\ lastP.reason = "Paymaster is shut down"
    /\ isShutdown
    /\ ByEntryPoint /\ GasWithinCeiling /\ FeeWithinCeiling /\ Funded /\ Whitelisted
    /\ lastP.data.maxCost > 0

----------------------------------------------------------------------------
(* Properties of the session-key store and of failure reporting *)

\* the account itself sent the transaction that called it
ByAccount == lastTx.origin = lastTx.to /\ lastTx.sender = lastTx.to

\* the entry of the account for the key named in the call, before and after
EntryBefore == Before.sessionKeys[lastTx.to][lastTx.to][lastTx.data.sessionKey]
EntryAfter == sessionKeys[lastTx.to][lastTx.to][lastTx.data.sessionKey]

\* what isValidSessionKey(k, a) of account a answers at time t in this state
ValidAt(a, k, t) == IsValidSessionKey(World, a, t, k, a)

\* a SessionKeyAdded record of account a for key k is in the logs
Granted(logs, a, k) ==
    \E i \in 1..Len(logs) :
        /\ logs[i].name = "SessionKeyAdded"
        /\ logs[i].emitter = a /\ logs[i].account = a /\ logs[i].sessionKey = k

\* C18: addSessionKey sent by the account succeeds for every validUntil, past or
\* future, and every maxValue; it sets the entry of that key to exactly
\* (validUntil, maxValue, active) whatever the entry was and touches no other entry;
\* the key is then valid when validUntil >= now, also if it had been revoked, and
\* invalid, without error, when validUntil < now.
C18_GrantOverwrites ==
    (lastTx.op = "addSessionKey" /\ ByAccount) =>
        /\ lastTx.ok
        /\ sessionKeys =
               [Before.sessionKeys EXCEPT
                   ![lastTx.to][lastTx.to][lastTx.data.sessionKey] =
                       [validUntil |-> lastTx.data.validUntil,
                        maxValue |-> lastTx.data.maxValue,
                        isActive |-> TRUE]]
        /\ ValidAt(lastTx.to, lastTx.data.sessionKey, now)
               <=> lastTx.data.validUntil >= now

\* a key that had been revoked is granted again with other limits and is valid
C18_Witness ==
    /\ lastTx.op = "addSessionKey" /\ ByAccount /\ lastTx.ok
    /\ ~EntryBefore.isActive
    /\ EntryBefore.maxValue > 0
    /\ EntryBefore.maxValue # lastTx.data.maxValue
    /\ EntryBefore.validUntil # lastTx.data.validUntil
    /\ lastTx.data.validUntil >= now
    /\ ValidAt(lastTx.to, lastTx.data.sessionKey, now)

\* a key is granted with validUntil < now: no error, and the key is not valid
C18_WitnessPast ==
    /\ lastTx.op = "addSessionKey" /\ ByAccount /\ lastTx.ok
    /\ lastTx.data.validUntil < now
    /\ ~ValidAt(lastTx.to, lastTx.data.sessionKey, now)

\* C19: revokeSessionKey sent by the account succeeds, also for a key never
\* granted; it clears the active flag of that one entry and changes nothing else
\* (validUntil and maxValue stay), so that revoking a revoked key changes nothing;
\* a key whose flag is clear is invalid at every time, and the flag of a key is set
\* again only by a transaction in which addSessionKey ran for it.
C19_RevokeIdempotent ==
    /\ (lastTx.op = "revokeSessionKey" /\ ByAccount) =>
           /\ lastTx.ok
           /\ sessionKeys =
                  [Before.sessionKeys EXCEPT
                      ![lastTx.to][lastTx.to][lastTx.data.sessionKey].isActive = FALSE]
           /\ nonces = Before.nonces /\ balances = Before.balances
           /\ ~EntryBefore.isActive => After = Before
           /\ \A t \in 0..MaxTime : ~ValidAt(lastTx.to, lastTx.data.sessionKey, t)
    /\ \A a \in Accounts, k \in Addrs :
           /\ ~sessionKeys[a][a][k].isActive =>
                  \A t \in 0..MaxTime : ~ValidAt(a, k, t)
           /\ (/\ lastTx # NoTx
               /\ ~Before.sessionKeys[a][a][k].isActive
               /\ sessionKeys[a][a][k].isActive) => Granted(lastTx.logs, a, k)

\* a key that had been granted and revoked is revoked once more
C19_Witness ==
    /\ lastTx.op = "revokeSessionKey" /\ ByAccount /\ lastTx.ok
    /\ ~EntryBefore.isActive
    /\ EntryBefore.maxValue > 0
    /\ EntryAfter = EntryBefore
    /\ now <= EntryAfter.validUntil

\* a key that was never granted is revoked
C19_WitnessNeverGranted ==
    /\ lastTx.op = "revokeSessionKey" /\ ByAccount /\ lastTx.ok
    /\ EntryBefore = ZeroKey
    /\ After = Before

\* the calls made by the frame that was called, not those made further down
TopCalls(calls) == SelectSeq(calls, LAMBDA e : e.depth = 0)

\* the reason the first failing one of these calls gave
FirstFailure(top) ==
    top[CHOOSE i \in 1..Len(top) :
            ~top[i].ok /\ \A j \in 1..(i - 1) : top[j].ok].reason

HasFailure(top) == \E i \in 1..Len(top) : ~top[i].ok

\* C20: when a call made by executeBatch or by executeWithSessionKey of a
\* delegating account, or by execute of the Account, fails, the function fails with
\* exactly the reason that call failed with (the first failing call of a batch),
\* the empty reason included.
C20_FailureVerbatim ==
    /\ (lastTx.op \in {"executeBatch", "executeWithSessionKey"}
            /\ HasFailure(TopCalls(lastTx.calls))) =>
           ~lastTx.ok /\ lastTx.reason = FirstFailure(TopCalls(lastTx.calls))
    /\ (lastOp.op = "execute" /\ HasFailure(TopCalls(lastOp.calls))) =>
           ~lastOp.ok /\ lastOp.reason = FirstFailure(TopCalls(lastOp.calls))

\* a batch whose first call went through and whose second call failed with a reason
C20_Witness ==
    /\ lastTx.op = "executeBatch" /\ ~lastTx.ok
    /\ Len(TopCalls(lastTx.calls)) = 2
    /\ TopCalls(lastTx.calls)[1].ok
    /\ TopCalls(lastTx.calls)[2].reason = "TargetReverted"
    /\ lastTx.reason = "TargetReverted"

\* a session call whose target failed with a reason
C20_WitnessSession ==
    /\ lastTx.op = "executeWithSessionKey" /\ ~lastTx.ok
    /\ HasFailure(TopCalls(lastTx.calls))
    /\ lastTx.reason # ""

\* execute of the Account called the Account, which refused
C20_WitnessExecute ==
    /\ lastOp.op = "execute" /\ ~lastOp.ok
    /\ HasFailure(TopCalls(lastOp.calls))
    /\ lastOp.reason = "Not authorized"

----------------------------------------------------------------------------
(* Properties of executeBatch and executeWithSessionKey: records, ordering, frame *)

\* the BatchExecuted records that account a emitted in the last transaction
OwnRecords(a) ==
    SelectSeq(lastTx.logs, LAMBDA e : e.name = "BatchExecuted" /\ e.emitter = a)

\* the fields every record of the model has besides the arguments of the event
Envelope == {"emitter", "name"}

\* C21 (the claim): a successful executeBatch whose calls do not re-enter executeBatch
\* emits exactly one completion record, and that record carries the account, the
\* counter before the increment and, in a further argument, the number of calls.
C21_CompletionRecord ==
    (lastTx.op = "executeBatch" /\ lastTx.ok /\ ~HasNestedBatch(lastTx.data.calls)) =>
        LET recs == OwnRecords(lastTx.to)
        IN  /\ Len(recs) = 1
            /\ recs[1].account = lastTx.to
            /\ recs[1].nonce = Before.nonces[lastTx.to][lastTx.to]
            /\ \E f \in (DOMAIN recs[1]) \ (Envelope \cup {"account", "nonce"}) :
                   recs[1][f] = Len(lastTx.data.calls)

\* C22 (the claim): while a call made by executeBatch runs, the counter the account
\* has stored is still the one it had before the batch.
C22_CounterHeldDuringCalls ==
    (lastTx.op = "executeBatch" /\ lastTx.sender = lastTx.to) =>
        \A i \in 1..Len(lastTx.calls) :
            (lastTx.calls[i].depth = 0 /\ lastTx.calls[i].from = lastTx.to) =>
                lastTx.calls[i].nonce = Before.nonces[lastTx.to][lastTx.to]

\* the code of account b ran with b itself as the direct caller, in a frame that
\* completed
CalledItself(b) ==
    \/ lastTx.to = b /\ lastTx.sender = b /\ lastTx.ok
    \/ \E i \in 1..Len(lastTx.calls) :
           /\ lastTx.calls[i].from = b /\ lastTx.calls[i].target = b
           /\ lastTx.calls[i].ok

\* a call reached for the storage of account b from another address and was refused
RefusedOn(b) ==
    \/ /\ lastTx.to = b /\ lastTx.sender # b
       /\ lastTx.op \in {"executeBatch", "addSessionKey", "revokeSessionKey"}
       /\ lastTx.reason = "Not delegating account"
    \/ \E i \in 1..Len(lastTx.calls) :
           /\ lastTx.calls[i].target = b /\ lastTx.calls[i].from # b
           /\ lastTx.calls[i].fn \in {"executeBatch", "addSessionKey", "revokeSessionKey"}
           /\ lastTx.calls[i].reason = "Not delegating account"

\* C23: the counter and the session keys of a delegating account b change only in a
\* transaction that b signed and in which b's code was called by b itself; what
\* another account, its session delegates or a third party send leaves them as they
\* were, and the storage of b holds no counter and no session key under another
\* account's name.
C23_NoCrossAccountMutation ==
    \A b \in Accounts :
        /\ \A x \in Addrs \ {b} :
               /\ nonces[b][x] = 0
               /\ \A k \in Addrs : sessionKeys[b][x][k] = ZeroKey
        /\ (/\ lastTx # NoTx
            /\ \/ nonces[b] # Before.nonces[b]
               \/ sessionKeys[b] # Before.sessionKeys[b]) =>
               lastTx.origin = b /\ CalledItself(b)
        /\ (lastTx # NoTx /\ lastTx.origin # b) =>
               nonces[b] = Before.nonces[b] /\ sessionKeys[b] = Before.sessionKeys[b]

\* account A, in a batch of its own, called addSessionKey of account B while B held a
\* key of its own: the call was refused and B's storage is as it was
C23_Witness ==
    /\ lastTx # NoTx /\ lastTx.origin = Primary /\ lastTx.to = Primary
    /\ lastTx.op = "executeBatch"
    /\ RefusedOn(Other(Primary))
    /\ sessionKeys[Other(Primary)][Other(Primary)][Other(Primary)].isActive
    /\ sessionKeys[Other(Primary)] = Before.sessionKeys[Other(Primary)]
    /\ nonces[Other(Primary)] = Before.nonces[Other(Primary)]

\* a session delegate of A, in a transaction of A, made A call revokeSessionKey of B
C23_WitnessSession ==
    /\ lastTx # NoTx /\ lastTx.origin = Primary /\ lastTx.sender = Relay
    /\ lastTx.to = Primary /\ lastTx.op = "executeWithSessionKey"
    /\ UsedKey.isActive
    /\ RefusedOn(Other(Primary))
    /\ sessionKeys[Other(Primary)][Other(Primary)][Other(Primary)].isActive

\* a third party, called by A, called executeBatch of B
C23_WitnessThirdParty ==
    /\ lastTx # NoTx /\ lastTx.origin = Primary /\ lastTx.sender = Relay
    /\ lastTx.to = Other(Primary) /\ lastTx.op = "executeBatch"
    /\ RefusedOn(Other(Primary))

\* the account called itself while the last transaction ran
SelfCalled ==
    \E i \in 1..Len(lastTx.calls) :
        lastTx.calls[i].from = lastTx.to /\ lastTx.calls[i].target = lastTx.to

\* the entry that the last call of executeWithSessionKey read, as it is now
UsedKeyNow == sessionKeys[lastTx.to][lastTx.origin][lastTx.sender]

Untouched ==
    /\ ~lastTx.ok
    /\ lastTx.calls = <<>> /\ lastTx.logs = <<>>
    /\ After = Before

\* modifier onlyAccountOrSession, as the last transaction met it
Authorized == lastTx.origin = lastTx.sender \/ KeyValid(UsedKey, now)

\* C25: executeWithSessionKey decides before it acts: a caller that is neither the
\* signer nor a holder of a valid key is refused as "Unauthorized", an inactive key
\* as "Session key not active", an expired key as "Session key expired", a value
\* above maxValue as "Value exceeds session limit"; each refusal makes no call,
\* emits nothing and leaves balances, counters and session keys as they were.
C25_ValidationFirst ==
    lastTx.op = "executeWithSessionKey" =>
        /\ ~Authorized => lastTx.reason = "Unauthorized" /\ Untouched
        /\ (Authorized /\ ~UsedKey.isActive) =>
               lastTx.reason = "Session key not active" /\ Untouched
        /\ (Authorized /\ UsedKey.isActive /\ now > UsedKey.validUntil) =>
               lastTx.reason = "Session key expired" /\ Untouched
        /\ (Authorized /\ UsedKey.isActive /\ now <= UsedKey.validUntil
                /\ lastTx.data.value > UsedKey.maxValue) =>
               lastTx.reason = "Value exceeds session limit" /\ Untouched

\* a key holder asked for more than maxValue from an account that could have paid
C25_Witness ==
    /\ lastTx.op = "executeWithSessionKey" /\ lastTx.sender # lastTx.origin
    /\ KeyValid(UsedKey, now)
    /\ lastTx.data.value > UsedKey.maxValue
    /\ Before.balances[lastTx.to] >= lastTx.data.value
    /\ lastTx.reason = "Value exceeds session limit"
    /\ Untouched

\* a caller whose key has expired
C25_WitnessUnauthorized ==
    /\ lastTx.op = "executeWithSessionKey" /\ lastTx.sender # lastTx.origin
    /\ UsedKey.isActive /\ now > UsedKey.validUntil
    /\ lastTx.reason = "Unauthorized" /\ Untouched

\* the signer itself, without a key
C25_WitnessInactive ==
    /\ lastTx.op = "executeWithSessionKey" /\ lastTx.sender = lastTx.origin
    /\ lastTx.reason = "Session key not active" /\ Untouched

\* the signer itself, with a key on itself that has expired
C25_WitnessExpired ==
    /\ lastTx.op = "executeWithSessionKey" /\ lastTx.sender = lastTx.origin
    /\ UsedKey.isActive /\ now > UsedKey.validUntil
    /\ lastTx.reason = "Session key expired" /\ Untouched

\* C26 (the claim): a successful executeWithSessionKey makes exactly one call and
\* leaves the counter of the account as it was, whatever the target and the payload.
C26_OneCallNoIncrement ==
    (lastTx.op = "executeWithSessionKey" /\ lastTx.ok) =>
        /\ Len(TopCalls(lastTx.calls)) = 1
        /\ nonces[lastTx.to] = Before.nonces[lastTx.to]

----------------------------------------------------------------------------
(* Properties of the counters *)

\* C27: no counter leaves 0..UintMax; executeBatch of an account whose counter is at
\* UintMax fails with Panic(0x11), makes no call and leaves everything as it was;
\* postOp whose addition would pass UintMax fails with Panic(0x11) and leaves every
\* usage counter as it was.
C27_NoWraparound ==
    /\ \A a \in Accounts, x \in Addrs : nonces[a][x] \in 0..UintMax
    /\ \A u \in Users : accountGasUsage[u] \in 0..UintMax
    /\ (lastTx.op = "executeBatch" /\ lastTx.sender = lastTx.to
            /\ Before.nonces[lastTx.to][lastTx.to] = UintMax) =>
           /\ ~lastTx.ok /\ lastTx.reason = "Panic(0x11)"
           /\ lastTx.calls = <<>> /\ lastTx.logs = <<>>
           /\ After = Before
    /\ (lastP.op = "postOp" /\ GateOpen /\ ByEntryPoint
            /\ PBefore.accountGasUsage[lastP.data.context] + lastP.data.actualGasCost
                   > UintMax) =>
           /\ ~lastP.ok /\ lastP.reason = "Panic(0x11)"
           /\ accountGasUsage = PBefore.accountGasUsage

\* an account whose counter stands at UintMax submits a batch with a call in it
C27_Witness ==
    /\ lastTx.op = "executeBatch" /\ lastTx.sender = lastTx.to
    /\ Before.nonces[lastTx.to][lastTx.to] = UintMax
    /\ lastTx.data.calls # <<>>
    /\ lastTx.reason = "Panic(0x11)"
    /\ nonces[lastTx.to][lastTx.to] = UintMax

\* the entry point reports a cost that the usage counter cannot take
C27_WitnessUsage ==
    /\ lastP.op = "postOp" /\ GateOpen /\ ByEntryPoint
    /\ PBefore.accountGasUsage[lastP.data.context] > 0
    /\ lastP.reason = "Panic(0x11)"
    /\ accountGasUsage = PBefore.accountGasUsage

\* C28 (the claim): the counters carried by the BatchExecuted records of an account,
\* in the order the account emitted them, are 0, 1, 2, ...
C28_RecordsInCounterOrder ==
    \A a \in Accounts :
        \A i \in 1..Len(events[a]) : events[a][i] = i - 1

\* the call log entry e is the call c of a batch
IsCall(e, c) == e.target = c.target /\ e.value = c.value /\ e.fn = c.data.fn

\* C29: the calls that executeBatch makes are the calls of its list, in list order,
\* from the first one on; every call but the last one made has succeeded, the batch
\* succeeds exactly when every call of the list was made and succeeded, and a batch
\* that is refused (a caller other than the account, a counter at UintMax) makes no
\* call.
C29_CallsInListOrder ==
    lastTx.op = "executeBatch" =>
        LET made == TopCalls(lastTx.calls)
            list == lastTx.data.calls
            admitted == /\ lastTx.sender = lastTx.to
                        /\ Before.nonces[lastTx.to][lastTx.to] < UintMax
        IN  /\ Len(made) <= Len(list)
            /\ \A i \in 1..Len(made) :
                   /\ made[i].from = lastTx.to
                   /\ IsCall(made[i], list[i])
                   /\ i < Len(made) => made[i].ok
            /\ lastTx.ok <=>
                   /\ admitted
                   /\ Len(made) = Len(list)
                   /\ \A i \in 1..Len(made) : made[i].ok
            /\ ~admitted => made = <<>>

\* a batch whose first call fails: the second call is never made
C29_Witness ==
    /\ lastTx.op = "executeBatch" /\ lastTx.sender = lastTx.to
    /\ Len(lastTx.data.calls) = 2
    /\ lastTx.data.calls[1] = FailCall
    /\ lastTx.data.calls[2] = Call(Delegate, 1, Empty)
    /\ Before.balances[lastTx.to] >= 1
    /\ Len(TopCalls(lastTx.calls)) = 1
    /\ ~TopCalls(lastTx.calls)[1].ok

\* a batch of two different calls, made in list order, the second of which fails
C29_WitnessSecondFails ==
    /\ lastTx.op = "executeBatch" /\ lastTx.sender = lastTx.to
    /\ lastTx.data.calls = <<Call(Delegate, 1, Empty), FailCall>>
    /\ Len(TopCalls(lastTx.calls)) = 2
    /\ TopCalls(lastTx.calls)[1].ok /\ TopCalls(lastTx.calls)[1].fn = "receive"
    /\ ~TopCalls(lastTx.calls)[2].ok /\ TopCalls(lastTx.calls)[2].fn = "fail"

\* the functions behind onlyDelegatingAccount
Guarded == {"executeBatch", "addSessionKey", "revokeSessionKey"}

\* C30: executeBatch, addSessionKey and revokeSessionKey called by anybody but the
\* account itself fail with "Not delegating account", make no call and leave
\* counters, session keys, balances and records as they were, whether the caller
\* holds a valid session key of the account, is another delegating account, or is
\* the account's own transaction passing through a contract; the same holds for
\* such a call made in the course of a transaction.
C30_OnlyTheAccountItself ==
    /\ (lastTx.op \in Guarded /\ lastTx.sender # lastTx.to) =>
           /\ ~lastTx.ok /\ lastTx.reason = "Not delegating account"
           /\ lastTx.calls = <<>> /\ lastTx.logs = <<>>
           /\ After = Before
    /\ lastTx # NoTx =>
           \A i \in 1..Len(lastTx.calls) :
               (/\ lastTx.calls[i].target \in Accounts
                /\ lastTx.calls[i].from # lastTx.calls[i].target
                /\ lastTx.calls[i].fn \in Guarded) =>
                   ~lastTx.calls[i].ok /\ lastTx.calls[i].reason = "Not delegating account"

\* a contract that holds a valid session key of the account calls addSessionKey
C30_Witness ==
    /\ lastTx.op = "addSessionKey" /\ lastTx.sender = Relay
    /\ KeyValid(Before.sessionKeys[lastTx.to][lastTx.to][Relay], now)
    /\ lastTx.reason = "Not delegating account"
    /\ After = Before

\* the delegate, holding a valid session key of the account, sends executeBatch
C30_WitnessDelegate ==
    /\ lastTx.op = "executeBatch" /\ lastTx.sender = Delegate
    /\ KeyValid(Before.sessionKeys[lastTx.to][lastTx.to][Delegate], now)
    /\ lastTx.reason = "Not delegating account"

\* another delegating account sends revokeSessionKey for a key that is active
C30_WitnessOtherAccount ==
    /\ lastTx.op = "revokeSessionKey" /\ lastTx.sender \in Accounts \ {lastTx.to}
    /\ EntryBefore.isActive
    /\ lastTx.reason = "Not delegating account"
    /\ EntryAfter.isActive

----------------------------------------------------------------------------
(* Properties of the Account's authority checks *)

\* the account's own fields, before the last call and now
AFieldsBefore == <<ABefore.platformSigner, ABefore.merchantAddress, ABefore.userEmail>>
AFieldsNow == <<platformSigner, merchantAddress, userEmail>>

\* C31 (the claim): setMerchantAddress called directly by an address that is neither
\* the account itself nor the platform signer fails with "Not authorized" and leaves
\* the merchant address as it was.
C31_MerchantSetByPlatformOrSelf ==
    (lastOp.op = "setMerchantAddress"
         /\ lastOp.sender \notin {Acct, ABefore.platformSigner}) =>
        /\ ~lastOp.ok /\ lastOp.reason = "Not authorized"
        /\ merchantAddress = ABefore.merchantAddress

\* the functions behind "self or platform signer", and the field each one writes
SelfAdministration == {"setPlatformSigner", "updateEmail"}

C32_WitnessMerchantSigner ==
    /\ lastOp.op = "setPlatformSigner"
    /\ lastOp.sender = ABefore.merchantAddress
    /\ lastOp.sender # ABefore.platformSigner
    /\ lastOp.data.arg # ABefore.platformSigner
    /\ lastOp.reason = "Not authorized"
    /\ platformSigner = ABefore.platformSigner

\* the account, through execute, changes its own email
C32_WitnessSelf ==
    /\ lastOp.op = "execute" /\ lastOp.ok
    /\ lastOp.data.dest = Acct /\ lastOp.data.func.fn = "updateEmail"
    /\ userEmail = lastOp.data.func.arg
    /\ userEmail # ABefore.userEmail

\* the callers execute admits, in the state before the last call
ExecuteAuthorities ==
    {Acct, ABefore.platformSigner, ABefore.merchantAddress, EntryPoint}

\* C33: execute makes its external call only for the account itself, the platform
\* signer, the merchant or the entry point: for them the first call made is the
\* requested one, from the account to dest with the value and the data given.  Any
\* other caller is refused with "Account: not authorized", no call is made, and
\* fields and balances stay as they were.
C33_ExecuteAuthorizedOnly ==
    lastOp.op = "execute" =>
        IF lastOp.sender \in ExecuteAuthorities
        THEN /\ lastOp.calls # <<>>
             /\ lastOp.calls[1].from = Acct
             /\ lastOp.calls[1].target = lastOp.data.dest
             /\ lastOp.calls[1].value = lastOp.data.value
             /\ lastOp.calls[1].fn = lastOp.data.func.fn
             /\ lastOp.ok <=> lastOp.calls[1].ok
        ELSE /\ ~lastOp.ok /\ lastOp.reason = "Account: not authorized"
             /\ lastOp.calls = <<>>
             /\ AFieldsNow = AFieldsBefore /\ ether = ABefore.ether

\* a stranger asks for a payment the account could have made
C33_Witness ==
    /\ lastOp.op = "execute"
    /\ lastOp.sender \notin ExecuteAuthorities
    /\ lastOp.data.dest = lastOp.sender
    /\ lastOp.data.value > 0 /\ ABefore.ether[Acct] >= lastOp.data.value
    /\ lastOp.reason = "Account: not authorized"
    /\ lastOp.calls = <<>>
    /\ ether = ABefore.ether

\* a replaced merchant is turned away like a stranger
C33_WitnessFormerMerchant ==
    /\ lastOp.op = "execute"
    /\ lastOp.sender = "M" /\ "M" \notin ExecuteAuthorities
    /\ lastOp.reason = "Account: not authorized"

\* the entry point has a payment made
C33_WitnessEntryPoint ==
    /\ lastOp.op = "execute" /\ lastOp.sender = EntryPoint /\ lastOp.ok
    /\ lastOp.data.value > 0
    /\ ether[lastOp.data.dest] = ABefore.ether[lastOp.data.dest] + lastOp.data.value

\* C34 (the claim): a call by an address that is neither the account itself, nor its
\* merchant, nor its platform signer, nor its entry point never lowers the account's
\* balance and never changes its merchant, platform signer or email; so the
\* missing-funds payment of validateUserOp is made to the entry point only.
C34_OutsidersTakeNothing ==
    (lastOp # NoTx /\ lastOp.sender \notin ExecuteAuthorities) =>
        /\ ether[Acct] >= ABefore.ether[Acct]
        /\ AFieldsNow = AFieldsBefore

----------------------------------------------------------------------------
(* Properties of a change of authority *)

\* the last call came right after a successful change of the role
RightAfter(change) == lastOp # NoTx /\ lastOp.prior.op = change

\* who held the role before the change, and who holds it since
FormerHolder ==
    IF lastOp.prior.op = "setMerchantAddress"
    THEN lastOp.prior.pre.merchantAddress ELSE lastOp.prior.pre.platformSigner
NewHolder == lastOp.prior.data.arg

\* the holder of the other role at the time of the last call
OtherRoleHolder ==
    IF lastOp.prior.op = "setMerchantAddress"
    THEN ABefore.platformSigner ELSE ABefore.merchantAddress

\* a well-formed signature by p over the hash presented
SignedBy(p) ==
    /\ Validated /\ PresentedSig.wellFormed
    /\ PresentedSig.over = EthSigned(lastOp.data.userOpHash)
    /\ PresentedSig.signer = p

\* the direct calls each role was admitted to
RoleCalls ==
    IF lastOp.prior.op = "setMerchantAddress"
    THEN {"execute", "withdraw", "setMerchantAddress"}
    ELSE {"execute", "setPlatformSigner", "setMerchantAddress"}

Refused ==
    ~lastOp.ok /\ lastOp.reason \in {"Not authorized", "Account: not authorized"}

C35_WitnessWithdraw ==
    /\ RightAfter("setMerchantAddress")
    /\ FormerHolder # NewHolder /\ FormerHolder # OtherRoleHolder
    /\ lastOp.sender = FormerHolder /\ lastOp.op = "withdraw"
    /\ ABefore.ether[Acct] > 0
    /\ Refused

\* the new merchant's signature is accepted
C35_WitnessNewMerchant ==
    /\ RightAfter("setMerchantAddress")
    /\ FormerHolder # NewHolder /\ NewHolder # OtherRoleHolder
    /\ SignedBy(NewHolder) /\ lastOp.ret = 0

\* the replaced platform signer tries to put itself back
C35_WitnessPlatform ==
    /\ RightAfter("setPlatformSigner")
    /\ FormerHolder # NewHolder /\ FormerHolder # OtherRoleHolder
    /\ lastOp.sender = FormerHolder /\ lastOp.op = "setPlatformSigner"
    /\ lastOp.data.arg = FormerHolder
    /\ Refused

\* a former merchant who is also the platform signer keeps signing
C35_WitnessBothRoles ==
    /\ RightAfter("setMerchantAddress")
    /\ FormerHolder # NewHolder /\ FormerHolder = OtherRoleHolder
    /\ SignedBy(FormerHolder) /\ lastOp.ret = 0

----------------------------------------------------------------------------
(* Properties of the Paymaster's callers and of the sponsor's funds *)

\* the two functions meant for the entry point
EntryPointOnly == {"validatePaymasterUserOp", "postOp"}

\* C36 (as stated): validatePaymasterUserOp and postOp reject every caller other than
\* the entry point with "Invalid entry point"; a usage counter is changed only by a
\* postOp called by the entry point.
C36_InvalidEntryPoint ==
    /\ (lastP.op \in EntryPointOnly /\ lastP.sender # EntryPoint) =>
           ~lastP.ok /\ lastP.reason = "Invalid entry point"
    /\ (lastP # NoTx /\ accountGasUsage # PBefore.accountGasUsage) =>
           lastP.op = "postOp" /\ lastP.sender = EntryPoint

\* C36 (amended): validatePaymasterUserOp and postOp reject every caller other than
\* the entry point and change nothing: with "Invalid entry point" while the
\* paymaster is open, with "Paymaster is shut down" once it is shut.  A usage
\* counter is changed only by a successful postOp called by the entry point.
C36_OnlyTheEntryPoint ==
    /\ (lastP.op \in EntryPointOnly /\ lastP.sender # EntryPoint) =>
           /\ ~lastP.ok
           /\ lastP.reason = IF PBefore.isShutdown THEN "Paymaster is shut down"
                             ELSE "Invalid entry point"
           /\ PWorld = PBefore
    /\ (lastP # NoTx /\ accountGasUsage # PBefore.accountGasUsage) =>
           lastP.op = "postOp" /\ lastP.sender = EntryPoint /\ lastP.ok

\* a stranger reports a cost for an account while the paymaster is open
C36_Witness ==
    /\ lastP.op = "postOp" /\ lastP.sender # EntryPoint
    /\ ~PBefore.isShutdown
    /\ lastP.data.actualGasCost > 0
    /\ lastP.reason = "Invalid entry point"
    /\ accountGasUsage = PBefore.accountGasUsage

\* a stranger submits an operation after the shutdown
C36_WitnessShut ==
    /\ lastP.op = "validatePaymasterUserOp" /\ lastP.sender # EntryPoint
    /\ PBefore.isShutdown
    /\ lastP.reason = "Paymaster is shut down"

\* the entry point's report is counted
C36_WitnessCounted ==
    /\ lastP.op = "postOp" /\ lastP.sender = EntryPoint /\ lastP.ok
    /\ accountGasUsage # PBefore.accountGasUsage

\* what the owner would get by calling withdraw while the paymaster is open, and by
\* calling shutdown once it is shut
Rescue ==
    PMessage(PWorld, Owner, 0, IF isShutdown THEN ShutdownData ELSE PmWithdrawData)

\* all the paymaster held has gone to the owner, nothing else has moved
AllToOwner(before, after) ==
    /\ after.wallet[Pm] = 0
    /\ after.wallet[Owner] = before.wallet[Owner] + before.wallet[Pm]
    /\ \A a \in Wallets \ {Pm, Owner} : after.wallet[a] = before.wallet[a]
    /\ after.entryPointDeposit = before.entryPointDeposit

C38_WitnessShutWithEther ==
    /\ lastP = NoTx /\ isShutdown /\ wallet[Pm] > 0
    /\ ~PMessage(PWorld, Owner, 0, PmWithdrawData).ok

\* the deposit at the entry point is taken out after the shutdown
C38_WitnessDeposit ==
    /\ lastP.op = "withdrawFromEntryPoint" /\ lastP.sender = Owner
    /\ PBefore.isShutdown /\ lastP.data.amount > 0
    /\ lastP.ok
    /\ entryPointDeposit < PBefore.entryPointDeposit

----------------------------------------------------------------------------
(* Properties of AccountFactory *)

FBefore == lastF.pre

\* the email already had an account when the last call was made
Taken(email) == FBefore.accountsByEmailHash[Keccak(email)] # Zero

\* C37: the factory keeps at most one account per email.  createAccount for an
\* email that has an account fails with "Account already exists" and changes
\* nothing; a batchCreateAccounts that names such an email fails as a whole and
\* constructs no account; no call changes an entry of accountsByEmailHash that is
\* set; and the entry of an email is the one account constructed with that email.
C37_OneAccountPerEmail ==
    /\ (lastF.op = "createAccount" /\ Taken(lastF.data.email)) =>
           /\ ~lastF.ok /\ lastF.reason = "Account already exists"
           /\ FWorld = FBefore
    /\ (lastF.op = "batchCreateAccounts"
            /\ \E i \in 1..Len(lastF.data.emails) : Taken(lastF.data.emails[i])) =>
           /\ ~lastF.ok
           /\ lastF.reason \in {"Account already exists", "Panic(0x32)"}
           /\ FWorld = FBefore
    /\ lastF # NoTx =>
           \A h \in EmailHashes :
               FBefore.accountsByEmailHash[h] # Zero
                   => accountsByEmailHash[h] = FBefore.accountsByEmailHash[h]
    /\ \A i, j \in 1..Len(deployed) :
           deployed[i].userEmail = deployed[j].userEmail => i = j
    /\ \A e \in Emails :
           IF accountsByEmailHash[Keccak(e)] = Zero
           THEN \A i \in 1..Len(deployed) : deployed[i].userEmail # e
           ELSE /\ accountsByEmailHash[Keccak(e)] \in 1..Len(deployed)
                /\ deployed[accountsByEmailHash[Keccak(e)]].userEmail = e

\* a batch whose first email is free and whose second has an account creates nothing
C37_Witness ==
    /\ lastF.op = "batchCreateAccounts"
    /\ Len(lastF.data.emails) = 2 /\ Len(lastF.data.merchantAddresses) = 2
    /\ ~Taken(lastF.data.emails[1]) /\ Taken(lastF.data.emails[2])
    /\ ~lastF.ok /\ lastF.reason = "Account already exists"
    /\ deployed = FBefore.deployed
    /\ accountsByEmailHash[Keccak(lastF.data.emails[1])] = Zero

\* createAccount for an email that has an account, with another merchant and after
\* the platform signer has changed
C37_WitnessCreate ==
    /\ lastF.op = "createAccount" /\ Taken(lastF.data.email)
    /\ lastF.reason = "Account already exists"
    /\ deployed[accountsByEmailHash[Keccak(lastF.data.email)]].merchantAddress
           # lastF.data.merchantAddress
    /\ deployed[accountsByEmailHash[Keccak(lastF.data.email)]].platformSigner
           # factoryPlatformSigner

\* a batch that names the same free email twice creates nothing
C37_WitnessTwice ==
    /\ lastF.op = "batchCreateAccounts"
    /\ Len(lastF.data.emails) = 2 /\ Len(lastF.data.merchantAddresses) = 2
    /\ lastF.data.emails[1] = lastF.data.emails[2]
    /\ ~Taken(lastF.data.emails[1])
    /\ ~lastF.ok /\ deployed = FBefore.deployed

\* a batch creates two accounts
C37_WitnessBoth ==
    /\ lastF.op = "batchCreateAccounts" /\ lastF.ok
    /\ Len(deployed) = Len(FBefore.deployed) + 2

====
